---- MODULE Spec2Model ----
(***************************************************************************)
(* Motion-control gateway and realtime protocol of grblHAL                 *)
(* (src/GRBL/motion_control.c, which also holds protocol.c).               *)
(*                                                                         *)
(* The foreground is a call stack of frames [fn, pc, v]; every foreground  *)
(* action executes the code between two points where an interrupt can be   *)
(* observed.  Interrupt handlers are atomic actions that run between       *)
(* foreground steps.                                                       *)
(***************************************************************************)
EXTENDS Integers, Sequences, FiniteSets, TLC

\* ------------------------------------------------------------------ bounds
PlanCap == 1
MaxEvents == 2
MaxCalls == 2
TravelMax == 1

\* --------------------------------------------------------- program constants
N_AXIS == 2
DEFAULT_FEED_OVERRIDE == 100
FEED_OVERRIDE_COARSE_INCREMENT == 10

Axes == 1..N_AXIS

States == {"IDLE", "CYCLE", "HOLD", "SAFETY_DOOR", "HOMING", "JOG",
           "CHECK_MODE", "ALARM", "ESTOP", "SLEEP", "TOOL_CHANGE"}

ExecFlags == {"RESET", "STOP", "STATUS_REPORT", "GCODE_REPORT", "PID_REPORT",
              "FEED_HOLD", "CYCLE_START", "CYCLE_COMPLETE", "SAFETY_DOOR",
              "MOTION_CANCEL"}

Alarms == {"HardLimit", "SoftLimit", "AbortCycle", "ProbeFailInitial",
           "ProbeFailContact", "HomingFailReset", "EStop"}

NoAlarm == "None"

SpindleOff == [on |-> FALSE, ccw |-> FALSE, rpm |-> 0]

VARIABLES
    stack,      \* foreground call stack, innermost frame last
    ret,        \* value returned by the call that returned last
    sys,        \* the sys record (state, abort, cancel, suspend, ...)
    rt_state,   \* sys_rt_exec_state: the set of pending realtime flags
    rt_alarm,   \* sys_rt_exec_alarm: the pending alarm code
    pins,       \* control inputs read through hal.system_control_get_state
    plan,       \* the planner: queued blocks and planner position
    hal,        \* driver outputs: spindle, coolant, stepper running
    ovr,        \* queued feed override commands
    bl,         \* backlash tracker: target_prev, dir_negative
    lin,        \* main loop statics: char_counter, line, xcommand, ...
    g,          \* observations of the current / last gateway call
    settings,   \* settings snapshot
    budget      \* remaining interrupt events and top-level calls

vars == <<stack, ret, sys, rt_state, rt_alarm, pins, plan, hal, ovr, bl, lin,
          g, settings, budget>>

\* ------------------------------------------------------------ call stack
Frame(fn, pc, v) == [fn |-> fn, pc |-> pc, v |-> v]
NoLocals == [none |-> TRUE]
Depth == Len(stack)
Top == stack[Len(stack)]
At(fn, pc) == Depth > 0 /\ Top.fn = fn /\ Top.pc = pc
Popped(s) == SubSeq(s, 1, Len(s) - 1)
Goto(s, pc) == [s EXCEPT ![Len(s)].pc = pc]
SetV(s, v) == [s EXCEPT ![Len(s)].v = v]
OnStack(fn) == \E i \in 1..Len(stack) : stack[i].fn = fn

\* ABORTED: a drain reports failure when abort or cancel is set.
Aborted(s) == s.abort \/ s.cancel

\* protocol_exec_rt_system's frame: whether it went through the critical wait,
\* whether it took an alarm, and the state it was entered in.
SystemLocals == [crit |-> FALSE, alarmed |-> FALSE, prior |-> "IDLE"]

\* The frames a call of protocol_execute_realtime starts with: its own frame
\* waiting for protocol_exec_rt_system, and that callee at its first line.
RealtimeFrames ==
    <<Frame("protocol_execute_realtime", "after_system", NoLocals),
      Frame("protocol_exec_rt_system", "alarm", SystemLocals)>>

CallRealtime(s, retpc) == Goto(s, retpc) \o RealtimeFrames

\* --------------------------------------------------------------- planner
plan_check_full_buffer == Len(plan.blocks) >= PlanCap
plan_get_current_block == Len(plan.blocks) > 0

\* plan_buffer_line: a zero-length move is rejected, anything else is queued.
PlanAccepts(p, target) == target # p.pos

PlanPush(p, target, kind) ==
    IF PlanAccepts(p, target)
    THEN [blocks |-> Append(p.blocks, [target |-> target, kind |-> kind]),
          pos |-> target]
    ELSE p

PlanReset(p) == [blocks |-> <<>>, pos |-> p.pos]

\* protocol_auto_cycle_start
AutoCycleStart(st, p) ==
    IF Len(p.blocks) > 0 THEN st \cup {"CYCLE_START"} ELSE st

\* --------------------------------------------------------------- mc_reset
InMotion(s) ==
    s.state \in {"CYCLE", "HOMING", "JOG"} \/ s.execute_hold \/ s.execute_sys_motion

ResetAlarm(s, al, p) ==
    LET a1 == IF InMotion(s)
              THEN IF s.state # "HOMING" THEN "AbortCycle"
                   ELSE IF al = NoAlarm THEN "HomingFailReset" ELSE al
              ELSE al
    IN IF p.e_stop THEN "EStop" ELSE a1

mc_reset(s, st, al, h, p) ==
    IF "RESET" \in st
    THEN [hal |-> h, st |-> st, al |-> al]
    ELSE [hal |-> [h EXCEPT !.spindle = SpindleOff, !.coolant = FALSE,
                            !.running = IF InMotion(s) THEN FALSE ELSE @],
          st |-> st \cup {"RESET"},
          al |-> ResetAlarm(s, al, p)]

\* ---------------------------------------------------------- state machine
\* set_state as used by the realtime layer: entering IDLE ends a suspend and
\* restores step control.
set_state(s, new) ==
    IF new = "IDLE"
    THEN [s EXCEPT !.state = new, !.suspend = FALSE, !.execute_hold = FALSE,
                   !.execute_sys_motion = FALSE]
    ELSE [s EXCEPT !.state = new]

\* update_state: the transitions driven by the flags left in a snapshot.
\* Returns the new sys record and whether the stepper runs.
Resume(s, hasBlock) ==
    IF hasBlock
    THEN [sys |-> [s EXCEPT !.state = "CYCLE", !.suspend = FALSE], run |-> TRUE]
    ELSE [sys |-> set_state(s, "IDLE"), run |-> FALSE]

update_state(s, ex, hasBlock, run) ==
    CASE s.state = "IDLE" ->
            IF "SAFETY_DOOR" \in ex
            THEN [sys |-> [s EXCEPT !.state = "SAFETY_DOOR", !.suspend = TRUE],
                  run |-> FALSE]
            ELSE IF "CYCLE_START" \in ex /\ hasBlock
            THEN [sys |-> [s EXCEPT !.state = "CYCLE"], run |-> TRUE]
            ELSE [sys |-> s, run |-> run]
      [] s.state = "CYCLE" ->
            IF "SAFETY_DOOR" \in ex
            THEN [sys |-> [s EXCEPT !.state = "SAFETY_DOOR", !.suspend = TRUE,
                                    !.execute_hold = TRUE],
                  run |-> run]
            ELSE IF "FEED_HOLD" \in ex
            THEN IF s.feed_hold_disable
                 THEN [sys |-> [s EXCEPT !.feed_hold_pending = TRUE], run |-> run]
                 ELSE [sys |-> [s EXCEPT !.state = "HOLD", !.suspend = TRUE,
                                         !.execute_hold = TRUE],
                       run |-> run]
            ELSE IF "CYCLE_COMPLETE" \in ex
            THEN [sys |-> set_state(s, "IDLE"), run |-> FALSE]
            ELSE [sys |-> s, run |-> run]
      [] s.state \in {"HOLD", "SAFETY_DOOR"} ->
            IF "CYCLE_COMPLETE" \in ex
            THEN [sys |-> [s EXCEPT !.execute_hold = FALSE], run |-> FALSE]
            ELSE IF "CYCLE_START" \in ex /\ ~s.execute_hold
            THEN Resume(s, hasBlock)
            ELSE [sys |-> s, run |-> run]
      [] s.state = "JOG" ->
            IF "CYCLE_COMPLETE" \in ex
            THEN [sys |-> set_state(s, "IDLE"), run |-> FALSE]
            ELSE [sys |-> s, run |-> run]
      [] OTHER -> [sys |-> s, run |-> run]

\* ------------------------------------------------ protocol_exec_rt_system
Critical_LimitsPass(code) == code \in {"SoftLimit", "EStop"}

Critical(code) == code \in {"HardLimit", "SoftLimit", "EStop"}
AlarmState_Unchanged(code) == "IDLE"

AlarmState(code) == IF code = "EStop" THEN "ESTOP" ELSE "ALARM"

\* Lines 1107-1117: take the pending alarm, set the alarm state.
ERS_Alarm ==
    /\ At("protocol_exec_rt_system", "alarm")
    /\ LET v == [crit |-> rt_alarm # NoAlarm /\ Critical(rt_alarm),
                 alarmed |-> rt_alarm # NoAlarm, prior |-> sys.state]
       IN IF rt_alarm # NoAlarm
          THEN /\ sys' = set_state(sys, AlarmState(rt_alarm))
               /\ g' = [g EXCEPT !.alarms = @ \cup {rt_alarm},
                                 !.wait_posted = FALSE]
               /\ IF Critical(rt_alarm)
                  THEN /\ rt_alarm' = rt_alarm
                       /\ rt_state' = rt_state \ {"RESET"}
                       /\ stack' = SetV(Goto(stack, "critical"), v)
                  ELSE /\ rt_alarm' = NoAlarm
                       /\ rt_state' = rt_state
                       /\ stack' = SetV(Goto(stack, "drain"), v)
          ELSE /\ stack' = SetV(Goto(stack, "drain"), v)
               /\ UNCHANGED <<sys, g, rt_alarm, rt_state>>
    /\ UNCHANGED <<ret, pins, plan, hal, ovr, bl, lin, settings, budget>>

\* Lines 1118-1128: one iteration of the critical-alarm wait.
ERS_Critical ==
    /\ At("protocol_exec_rt_system", "critical")
    /\ IF "RESET" \in rt_state
       THEN /\ rt_alarm' = NoAlarm
            /\ stack' = Goto(stack, "drain")
            /\ UNCHANGED <<rt_state, g>>
       ELSE /\ rt_state' = rt_state \ {"STATUS_REPORT"}
            /\ g' = IF "STATUS_REPORT" \in rt_state
                    THEN [g EXCEPT !.reports = @ + 1, !.wait_reports = @ + 1,
                                   !.wait_posted = FALSE,
                                   !.eol = @ \ {"STATUS_REPORT"}]
                    ELSE g
            /\ UNCHANGED <<rt_alarm, stack>>
    /\ UNCHANGED <<ret, sys, pins, plan, hal, ovr, bl, lin, settings, budget>>

StopSys_KeepsPending(s) ==
    set_state([s EXCEPT !.cancel = TRUE, !.execute_hold = FALSE,
                        !.execute_sys_motion = FALSE], "IDLE")

\* Lines 1144-1175: EXEC_STOP, as far as the sys and gc_state fields go.
StopSys(s) ==
    set_state([s EXCEPT !.cancel = TRUE, !.execute_hold = FALSE,
                        !.execute_sys_motion = FALSE,
                        !.feed_hold_pending = FALSE,
                        !.delay_overrides = FALSE,
                        !.feed_hold_disable =
                            IF s.sync THEN s.modal.feed_hold_disable ELSE @,
                        !.sync = IF s.sync THEN s.modal.sync ELSE @,
                        !.tool_change = FALSE,
                        !.modal.coolant = FALSE,
                        !.modal.spindle = FALSE], "IDLE")

\* Lines 1206-1250: the feed override commands queued, applied in order.
RECURSIVE FeedOverride(_, _)
FeedOverride(f, q) ==
    IF q = <<>> THEN f
    ELSE FeedOverride(
            CASE Head(q) = "FEED_RESET" -> DEFAULT_FEED_OVERRIDE
              [] Head(q) = "FEED_COARSE_PLUS" -> f + FEED_OVERRIDE_COARSE_INCREMENT
              [] Head(q) = "FEED_COARSE_MINUS" -> f - FEED_OVERRIDE_COARSE_INCREMENT
              [] OTHER -> f,
            Tail(q))

Drained_Never(q) == q

\* Lines 1206-1247: get_feed_override takes each command out of the queue, so
\* the loop leaves the queue empty.
Drained(q) == <<>>

\* Lines 1190-1195: a pending feed hold is dropped by cycle start, else raised
\* once feed hold is no longer disabled.
HoldPending(s, ex) ==
    IF s.feed_hold_pending
    THEN IF "CYCLE_START" \in ex
         THEN [sys |-> [s EXCEPT !.feed_hold_pending = FALSE], ex |-> ex]
         ELSE IF ~s.feed_hold_disable
         THEN [sys |-> s, ex |-> ex \cup {"FEED_HOLD"}]
         ELSE [sys |-> s, ex |-> ex]
    ELSE [sys |-> s, ex |-> ex]

Handled == {"STOP", "STATUS_REPORT", "GCODE_REPORT", "PID_REPORT"}

\* Whether a snapshot holding EXEC_RESET ends the drain at once (line 1135).
ResetWins_AfterStop(snap) == "RESET" \in snap /\ "STOP" \notin snap

ResetWins(snap) == "RESET" \in snap

\* Line 1140: the only place abort is set.
AbortOnReset(p) == ~p.e_stop

\* Lines 1132-1330 as a function of the state the drain starts in.
DrainResult(s, snap, p, h, q, ps) ==
    IF ResetWins(snap)
    THEN [ret |-> ~AbortOnReset(ps), sys |-> [s EXCEPT !.abort = AbortOnReset(ps)], plan |-> p,
          hal |-> h, ovr |-> q, status |-> 0, other |-> 0,
          stop |-> FALSE, updated |-> FALSE, applied |-> FALSE, handed |-> {}]
    ELSE
    LET stop == "STOP" \in snap
        s1 == IF stop THEN StopSys(s) ELSE s
        p1 == IF stop THEN PlanReset(p) ELSE p
        h1 == IF stop THEN [h EXCEPT !.spindle = SpindleOff, !.coolant = FALSE,
                                     !.running = FALSE]
              ELSE h
        q1 == IF stop THEN <<>> ELSE q
        hp == IF snap = {} THEN [sys |-> s1, ex |-> {}]
              ELSE HoldPending(s1, snap \ Handled)
        up == IF hp.ex # {}
              THEN update_state(hp.sys, hp.ex, Len(p1.blocks) > 0, h1.running)
              ELSE [sys |-> hp.sys, run |-> h1.running]
        apply == ~up.sys.delay_overrides /\ q1 # <<>>
        s3 == IF apply
              THEN [up.sys EXCEPT !.f_override = FeedOverride(@, q1)]
              ELSE up.sys
    IN [ret |-> ~Aborted(s3), sys |-> s3, plan |-> p1,
        hal |-> [h1 EXCEPT !.running = up.run],
        ovr |-> IF apply THEN Drained(q1) ELSE q1,
        status |-> IF "STATUS_REPORT" \in snap THEN 1 ELSE 0,
        other |-> Cardinality(snap \cap {"GCODE_REPORT", "PID_REPORT"}),
        stop |-> stop, updated |-> hp.ex # {}, applied |-> apply,
        handed |-> hp.ex]

\* Lines 1132-1330: snapshot the state flags and act on them, then return.
ERS_Drain ==
    /\ At("protocol_exec_rt_system", "drain")
    /\ LET r == DrainResult(sys, rt_state, plan, hal, ovr, pins)
           inLine == OnStack("mc_line")
       IN /\ sys' = r.sys
          /\ plan' = r.plan
          /\ hal' = r.hal
          /\ ovr' = r.ovr
          /\ ret' = r.ret
          /\ g' = [g EXCEPT
                   !.reports = @ + r.status,
                   !.snap = rt_state,
                   !.crit = Top.v.crit,
                   !.acted = [status |-> r.status + r.other > 0, stop |-> r.stop,
                              updated |-> r.updated, applied |-> r.applied,
                              handed |-> r.handed],
                   !.reset_drained = @ \/ "RESET" \in rt_state,
                   !.reset_ctx = IF "RESET" \in rt_state
                                 THEN [alarmed |-> Top.v.alarmed,
                                       prior |-> Top.v.prior]
                                 ELSE @,
                   !.call.spindle_calls =
                        IF inLine /\ r.stop THEN @ + 1 ELSE @,
                   !.eol = IF ResetWins(rt_state) THEN @ \ {"RESET"}
                           ELSE @ \ rt_state,
                   !.from = sys]
    /\ rt_state' = {}
    /\ stack' = Popped(stack)
    /\ UNCHANGED <<rt_alarm, pins, bl, lin, settings, budget>>

\* ----------------------------------------------- protocol_execute_realtime
\* Lines 1056-1070, after protocol_exec_rt_system has returned.
PER_AfterSystem ==
    /\ At("protocol_execute_realtime", "after_system")
    /\ IF ret /\ sys.suspend
       THEN /\ stack' = Goto(stack, "after_suspend")
                        \o <<Frame("protocol_exec_rt_suspend", "loop", NoLocals)>>
            /\ UNCHANGED ret
       ELSE /\ stack' = Popped(stack)
            /\ ret' = ~Aborted(sys)
    /\ UNCHANGED <<sys, rt_state, rt_alarm, pins, plan, hal, ovr, bl, lin, g,
                   settings, budget>>

PER_AfterSuspend ==
    /\ At("protocol_execute_realtime", "after_suspend")
    /\ stack' = Popped(stack)
    /\ ret' = ~Aborted(sys)
    /\ UNCHANGED <<sys, rt_state, rt_alarm, pins, plan, hal, ovr, bl, lin, g,
                   settings, budget>>

\* ------------------------------------------------ protocol_exec_rt_suspend
\* Lines 1341-1360: one pass of the suspend loop.
SUSP_Loop ==
    /\ At("protocol_exec_rt_suspend", "loop")
    /\ IF ~sys.suspend \/ sys.abort
       THEN /\ stack' = Popped(stack)
            /\ UNCHANGED rt_state
       ELSE /\ rt_state' = IF sys.state = "SAFETY_DOOR" /\ ~pins.door_ajar
                           THEN rt_state \cup {"CYCLE_START"}
                           ELSE rt_state
            /\ stack' = stack \o
                 <<Frame("protocol_exec_rt_system", "alarm", SystemLocals)>>
    /\ UNCHANGED <<ret, sys, rt_alarm, pins, plan, hal, ovr, bl, lin, g,
                   settings, budget>>

\* ------------------------------------------------------------- backlash
\* The moves handed to mc_line and the planner pushes it made since the
\* backlash tracker was initialised at position `start`.
NoMoves(start) == [start |-> start, moves |-> <<>>, log |-> <<>>, clean |-> TRUE]

\* mc_backlash_init: the axes with a backlash setting, the initial direction.
backlash_enabled(st) == {i \in Axes : st.backlash[i] > 0}

mc_backlash_init(st, pos) ==
    [target_prev |-> pos, dir_negative |-> Axes \ st.homing_dir_mask]

\* Lines 97-113: per enabled axis, a change of direction moves target_prev by
\* the axis' backlash and flips its direction bit.
Reverses(b, st, target, i) ==
    /\ i \in backlash_enabled(st)
    /\ \/ target[i] > b.target_prev[i] /\ i \in b.dir_negative
       \/ target[i] < b.target_prev[i] /\ i \notin b.dir_negative

BacklashComp(b, st, target) == \E i \in Axes : Reverses(b, st, target, i)

BacklashAdjust_NoOffset(b, st, target) ==
    [target_prev |-> b.target_prev,
     dir_negative |->
        {i \in Axes : IF Reverses(b, st, target, i)
                      THEN i \notin b.dir_negative
                      ELSE i \in b.dir_negative}]

BacklashAdjust(b, st, target) ==
    [target_prev |->
        [i \in Axes |->
            IF ~Reverses(b, st, target, i) THEN b.target_prev[i]
            ELSE IF target[i] > b.target_prev[i]
                 THEN b.target_prev[i] + st.backlash[i]
                 ELSE b.target_prev[i] - st.backlash[i]],
     dir_negative |->
        {i \in Axes : IF Reverses(b, st, target, i)
                      THEN i \notin b.dir_negative
                      ELSE i \in b.dir_negative}]

\* Lines 117-124: the plan data of the compensating move.
pl_backlash_feed == [rapid_motion |-> FALSE, backlash_motion |-> TRUE]

pl_backlash == [rapid_motion |-> TRUE, backlash_motion |-> TRUE]

\* ----------------------------------------------------------------- mc_line
\* limits_soft_check: a target outside the travel extents posts SoftLimit.
InTravel(target) == \A i \in Axes : target[i] >= 0 /\ target[i] <= TravelMax

\* Line 70: which requests are validated against the travel extents.
SoftChecked(req, st) == ~req.jog /\ st.soft_enabled

\* Line 74: in check mode the planner is not touched.
PlannerBlocked_Never(s) == FALSE

PlannerBlocked(s) == s.state = "CHECK_MODE"

\* Line 152: a rejected push in laser mode with M3 applies the spindle state.
SpindleSync_AnyDirection(req, st, accepted) ==
    ~accepted /\ st.laser_mode /\ req.spindle.on

SpindleSync(req, st, accepted) ==
    ~accepted /\ st.laser_mode /\ req.spindle.on /\ ~req.spindle.ccw

\* Lines 128 and 144: the gateway waits while the planner buffer is full.
MustWait_Never(p) == FALSE

MustWait(p) == Len(p.blocks) >= PlanCap

NewCall(req, s, st) ==
    [ret |-> TRUE, spindle_calls |-> 0, req |-> req, active |-> TRUE,
     done |-> FALSE,
     check_mode |-> s.state = "CHECK_MODE", soft |-> FALSE,
     violation |-> FALSE, offers |-> 0, rejected |-> FALSE, bl_offers |-> 0,
     bl_rapid |-> TRUE, full_push |-> FALSE, spindle_arg |-> SpindleOff,
     waited |-> FALSE, aborted_wait |-> FALSE]

Returned(c, r) == [c EXCEPT !.active = FALSE, !.done = TRUE, !.ret = r]

\* Lines 70-74: soft-limit check, then the check-mode test and the first
\* realtime checkpoint.
MCL_Entry ==
    /\ At("mc_line", "entry")
    /\ LET req == Top.v.req
           soft == SoftChecked(req, settings)
           viol == soft /\ ~InTravel(req.target)
           c1 == [g.call EXCEPT !.soft = soft, !.violation = viol]
       IN /\ rt_alarm' = IF viol THEN "SoftLimit" ELSE rt_alarm
          /\ IF ~PlannerBlocked(sys)
             THEN /\ stack' = CallRealtime(stack, "checked")
                  /\ g' = [g EXCEPT !.call = c1,
                                    !.bk.moves = Append(@, req.target)]
                  /\ UNCHANGED ret
             ELSE /\ stack' = Popped(stack)
                  /\ ret' = ~Aborted(sys)
                  /\ g' = [g EXCEPT !.call = Returned(c1, ~Aborted(sys)),
                                    !.bk.moves = Append(@, req.target),
                                    !.bk.clean = FALSE]
    /\ UNCHANGED <<sys, rt_state, pins, plan, hal, ovr, bl, lin, settings, budget>>

\* Lines 74-115 after the checkpoint: bail on abort, else track direction.
MCL_Checked ==
    /\ At("mc_line", "checked")
    /\ LET req == Top.v.req
       IN IF ~ret
          THEN /\ stack' = Popped(stack)
               /\ ret' = ~Aborted(sys)
               /\ g' = [g EXCEPT !.call = Returned(@, ~Aborted(sys)),
                                 !.bk.clean = FALSE]
               /\ UNCHANGED bl
          ELSE /\ UNCHANGED <<ret, g>>
               /\ IF backlash_enabled(settings) = {}
                  THEN /\ stack' = Goto(stack, "wait")
                       /\ UNCHANGED bl
                  ELSE IF BacklashComp(bl, settings, req.target)
                  THEN /\ bl' = BacklashAdjust(bl, settings, req.target)
                       /\ stack' = Goto(stack, "backlash_wait")
                  ELSE /\ bl' = [bl EXCEPT !.target_prev = req.target]
                       /\ stack' = Goto(stack, "wait")
    /\ UNCHANGED <<sys, rt_state, rt_alarm, pins, plan, hal, ovr, lin, settings,
                   budget>>

MCL_BacklashWait_Late ==
    /\ At("mc_line", "backlash_wait")
    /\ plan' = PlanPush(PlanPush(plan, Top.v.req.target, "line"),
                        bl.target_prev, "backlash")
    /\ bl' = [bl EXCEPT !.target_prev = Top.v.req.target]
    /\ stack' = Goto(stack, "wait")
    /\ g' = [g EXCEPT !.call.bl_offers = @ + 1,
                      !.bk.log = @ \o <<[target |-> Top.v.req.target,
                                         move |-> Len(g.bk.moves),
                                         cond |-> [backlash_motion |-> FALSE]],
                                        [target |-> bl.target_prev,
                                         move |-> Len(g.bk.moves),
                                         cond |-> pl_backlash]>>]
    /\ UNCHANGED <<ret, sys, rt_state, rt_alarm, pins, hal, ovr, lin, settings,
                   budget>>

\* Lines 128-137: wait for room, then queue the backlash move.
MCL_BacklashWait ==
    /\ At("mc_line", "backlash_wait")
    /\ IF MustWait(plan)
       THEN /\ rt_state' = AutoCycleStart(rt_state, plan)
            /\ stack' = CallRealtime(stack, "backlash_checked")
            /\ g' = [g EXCEPT !.call.waited = TRUE]
            /\ UNCHANGED <<plan, bl>>
       ELSE /\ plan' = PlanPush(plan, bl.target_prev, "backlash")
            /\ bl' = [bl EXCEPT !.target_prev = Top.v.req.target]
            /\ stack' = Goto(stack, "wait")
            /\ g' = [g EXCEPT !.call.bl_offers = @ + 1,
                              !.call.full_push = @ \/ plan_check_full_buffer,
                              !.bk.log = Append(@, [target |-> bl.target_prev,
                                                    move |-> Len(g.bk.moves),
                                                    cond |-> pl_backlash])]
            /\ UNCHANGED rt_state
    /\ UNCHANGED <<ret, sys, rt_alarm, pins, hal, ovr, lin, settings, budget>>

\* Lines 130-131 and 146-147: a drain that reports abort ends the call.
WaitChecked(back) ==
    /\ IF ~ret
       THEN /\ stack' = Popped(stack)
            /\ ret' = FALSE
            /\ g' = [g EXCEPT !.call = [Returned(@, FALSE) EXCEPT
                                        !.aborted_wait = TRUE],
                              !.bk.clean = FALSE]
       ELSE /\ stack' = Goto(stack, back)
            /\ UNCHANGED <<ret, g>>
    /\ UNCHANGED <<sys, rt_state, rt_alarm, pins, plan, hal, ovr, bl, lin,
                   settings, budget>>

MCL_BacklashChecked ==
    /\ At("mc_line", "backlash_checked")
    /\ WaitChecked("backlash_wait")

\* Lines 144-159: wait for room, queue the line, sync the spindle on a
\* rejected push in laser mode, return !ABORTED.
MCL_Wait ==
    /\ At("mc_line", "wait")
    /\ LET req == Top.v.req
           accepted == PlanAccepts(plan, req.target)
           sync == SpindleSync(req, settings, accepted)
       IN IF MustWait(plan)
          THEN /\ rt_state' = AutoCycleStart(rt_state, plan)
               /\ stack' = CallRealtime(stack, "wait_checked")
               /\ g' = [g EXCEPT !.call.waited = TRUE]
               /\ UNCHANGED <<plan, hal, ret>>
          ELSE /\ plan' = PlanPush(plan, req.target, "line")
               /\ hal' = IF sync
                         THEN [hal EXCEPT !.spindle =
                                 [on |-> req.spindle.on, ccw |-> req.spindle.ccw,
                                  rpm |-> req.rpm]]
                         ELSE hal
               /\ stack' = Popped(stack)
               /\ ret' = ~Aborted(sys)
               /\ g' = [g EXCEPT !.call =
                          [Returned(@, ~Aborted(sys)) EXCEPT
                             !.offers = @ + 1,
                             !.rejected = ~accepted,
                             !.full_push = @ \/ plan_check_full_buffer,
                             !.spindle_calls = IF sync THEN @ + 1 ELSE @,
                             !.spindle_arg =
                                IF sync
                                THEN [on |-> req.spindle.on,
                                      ccw |-> req.spindle.ccw, rpm |-> req.rpm]
                                ELSE @],
                          !.bk.log = Append(@, [target |-> req.target,
                                                move |-> Len(g.bk.moves),
                                                cond |-> [backlash_motion |-> FALSE]]),
                          !.bk.clean = @ /\ ~Aborted(sys)]
               /\ UNCHANGED rt_state
    /\ UNCHANGED <<sys, rt_alarm, pins, ovr, bl, lin, settings, budget>>

MCL_WaitChecked ==
    /\ At("mc_line", "wait_checked")
    /\ WaitChecked("wait")

\* ------------------------------------------------------------ interrupts
\* An interrupt handler runs to completion between two foreground steps.
Event == budget.events > 0
Spend == [budget EXCEPT !.events = @ - 1]

RtFlagOf(c) ==
    CASE c = "CMD_STOP" -> "STOP"
      [] c = "CMD_STATUS_REPORT" -> "STATUS_REPORT"
      [] c = "CMD_CYCLE_START" -> "CYCLE_START"
      [] c = "CMD_FEED_HOLD" -> "FEED_HOLD"
      [] c = "CMD_SAFETY_DOOR" -> "SAFETY_DOOR"
      [] c = "CMD_GCODE_REPORT" -> "GCODE_REPORT"
      [] c = "CMD_PID_REPORT" -> "PID_REPORT"

FlagCmds == {"CMD_STOP", "CMD_STATUS_REPORT", "CMD_CYCLE_START", "CMD_FEED_HOLD",
             "CMD_SAFETY_DOOR", "CMD_GCODE_REPORT", "CMD_PID_REPORT"}

\* The control codes sent while the gateway is exercised.
GatewayCmds == {"CMD_STOP", "CMD_CYCLE_START", "CMD_FEED_HOLD"}

FeedCmds == {"FEED_RESET", "FEED_COARSE_PLUS", "FEED_COARSE_MINUS"}

\* Line 1389: the reset character is ignored while e-stop is asserted.
ResetAllowed(p) == ~p.e_stop

\* protocol_enqueue_realtime_command, the control codes (lines 1375-1482).
RT_Flag(c) ==
    /\ Event
    /\ rt_state' = rt_state \cup {RtFlagOf(c)}
    /\ lin' = IF c = "CMD_STOP" THEN [lin EXCEPT !.char_counter = 0] ELSE lin
    /\ g' = IF c = "CMD_STATUS_REPORT"
               /\ At("protocol_exec_rt_system", "critical")
            THEN [g EXCEPT !.wait_posted = TRUE] ELSE g
    /\ budget' = Spend
    /\ UNCHANGED <<stack, ret, sys, rt_alarm, pins, plan, hal, ovr, bl, settings>>

RT_Reset ==
    /\ Event
    /\ LET r == mc_reset(sys, rt_state, rt_alarm, hal, pins)
       IN IF ResetAllowed(pins)
          THEN rt_state' = r.st /\ rt_alarm' = r.al /\ hal' = r.hal
          ELSE UNCHANGED <<rt_state, rt_alarm, hal>>
    /\ budget' = Spend
    /\ UNCHANGED <<stack, ret, sys, pins, plan, ovr, bl, lin, g, settings>>

RT_Exit ==
    /\ Event
    /\ LET r == mc_reset(sys, rt_state, rt_alarm, hal, pins)
       IN rt_state' = r.st /\ rt_alarm' = r.al /\ hal' = r.hal
    /\ sys' = [sys EXCEPT !.exit = TRUE]
    /\ budget' = Spend
    /\ UNCHANGED <<stack, ret, pins, plan, ovr, bl, lin, g, settings>>

RT_Override(c) ==
    /\ Event
    /\ ovr' = Append(ovr, c)
    /\ budget' = Spend
    /\ UNCHANGED <<stack, ret, sys, rt_state, rt_alarm, pins, plan, hal, bl,
                   lin, g, settings>>

\* Control-pin interrupt: e-stop asserted resets the system; release only
\* changes the input.
ISR_EStop ==
    /\ Event
    /\ pins' = [pins EXCEPT !.e_stop = ~@]
    /\ LET r == mc_reset(sys, rt_state, rt_alarm, hal, pins')
       IN IF pins'.e_stop
          THEN rt_state' = r.st /\ rt_alarm' = r.al /\ hal' = r.hal
          ELSE UNCHANGED <<rt_state, rt_alarm, hal>>
    /\ budget' = Spend
    /\ UNCHANGED <<stack, ret, sys, plan, ovr, bl, lin, g, settings>>

\* Limit-switch interrupt: reset, then the hard-limit alarm.
ISR_HardLimit ==
    /\ Event
    /\ settings.hard_enabled
    /\ LET r == mc_reset(sys, rt_state, rt_alarm, hal, pins)
       IN rt_state' = r.st /\ hal' = r.hal
    /\ rt_alarm' = "HardLimit"
    /\ budget' = Spend
    /\ UNCHANGED <<stack, ret, sys, pins, plan, ovr, bl, lin, g, settings>>

\* Stepper interrupt: a running stepper finishes the head block, or the
\* deceleration of a hold; an emptied buffer posts EXEC_CYCLE_COMPLETE.
ISR_Stepper ==
    /\ hal.running
    /\ Len(plan.blocks) > 0
    /\ IF sys.execute_hold
       THEN /\ rt_state' = rt_state \cup {"CYCLE_COMPLETE"}
            /\ hal' = [hal EXCEPT !.running = FALSE]
            /\ UNCHANGED plan
       ELSE /\ plan' = [plan EXCEPT !.blocks = Tail(@)]
            /\ rt_state' = IF Len(plan.blocks) = 1
                           THEN rt_state \cup {"CYCLE_COMPLETE"}
                           ELSE rt_state
            /\ hal' = [hal EXCEPT !.running = Len(plan.blocks) > 1]
    /\ UNCHANGED <<stack, ret, sys, rt_alarm, pins, ovr, bl, lin, g, settings,
                   budget>>

Interrupt ==
    \/ \E c \in GatewayCmds : RT_Flag(c)
    \/ RT_Reset
    \/ RT_Exit
    \/ ISR_EStop
    \/ ISR_Stepper

\* ------------------------------------------------------------- realtime
Realtime ==
    \/ ERS_Alarm
    \/ ERS_Critical
    \/ ERS_Drain
    \/ PER_AfterSystem
    \/ PER_AfterSuspend
    \/ SUSP_Loop

Gateway ==
    \/ MCL_Entry
    \/ MCL_Checked
    \/ MCL_BacklashWait
    \/ MCL_BacklashChecked
    \/ MCL_Wait
    \/ MCL_WaitChecked

\* -------------------------------------------------- protocol_main_loop entry
\* Lines 806-837: the state the main loop starts in.
EntryState_LimitsIgnored(s, p, st, cold) ==
    IF p.e_stop THEN "ESTOP"
    ELSE IF st.homing_init_lock /\ ~s.homed THEN "ALARM"
    ELSE IF cold /\ (st.force_initialization_alarm \/ p.reset) THEN "ALARM"
    ELSE IF s.state \in {"ALARM", "SLEEP"} THEN "ALARM"
    ELSE "IDLE"

EntryState(s, p, st, cold) ==
    IF p.e_stop THEN "ESTOP"
    ELSE IF st.homing_init_lock /\ ~s.homed THEN "ALARM"
    ELSE IF st.hard_enabled /\ st.check_at_init /\ p.limits THEN "ALARM"
    ELSE IF cold /\ (st.force_initialization_alarm \/ p.reset) THEN "ALARM"
    ELSE IF s.state \in {"ALARM", "SLEEP"} THEN "ALARM"
    ELSE "IDLE"

\* main(): after an abort the system is re-initialised and the main loop
\* entered again; the mode survives, everything else starts afresh.
Reinit(s, p, st) ==
    [s EXCEPT !.abort = FALSE, !.cancel = FALSE, !.exit = FALSE,
              !.suspend = FALSE, !.feed_hold_pending = FALSE,
              !.delay_overrides = FALSE, !.execute_hold = FALSE,
              !.execute_sys_motion = FALSE,
              !.f_override = DEFAULT_FEED_OVERRIDE,
              !.state = EntryState(s, p, st, FALSE)]

\* ----------------------------------------------------------------- inputs
Targets == {t \in [Axes -> 0..(TravelMax + 1)] : t[2] = 0}

Spindles == {SpindleOff, [on |-> TRUE, ccw |-> FALSE, rpm |-> 9],
             [on |-> TRUE, ccw |-> TRUE, rpm |-> 9]}

Requests ==
    {r \in {[rpm |-> sp.rpm, target |-> t,
             spindle |-> [on |-> sp.on, ccw |-> sp.ccw], jog |-> j] :
                t \in Targets, j \in BOOLEAN, sp \in Spindles} :
        r.jog => ~r.spindle.on}

SettingsSet ==
    {[backlash |-> b, homing_dir_mask |-> {}, soft_enabled |-> se,
      laser_mode |-> lm, hard_enabled |-> TRUE, homing_init_lock |-> FALSE,
      force_initialization_alarm |-> FALSE, check_at_init |-> FALSE,
      user_command_execute |-> FALSE,
      safety_door_ignore_when_idle |-> FALSE] :
        se \in BOOLEAN, lm \in BOOLEAN, b \in {<<0, 0>>, <<1, 0>>}}

\* The settings profiles explored: every feature on and off.
Profiles ==
    {st \in SettingsSet :
        <<st.soft_enabled, st.laser_mode, st.backlash[1]>> \in
            {<<TRUE, FALSE, 0>>, <<FALSE, TRUE, 0>>, <<TRUE, TRUE, 1>>,
             <<FALSE, FALSE, 1>>}}

\* ---------------------------------------------------- the gateway's caller
\* The g-code executor as far as the gateway sees it: it runs only while the
\* main loop dispatches g-code, and issues line requests.
CanDispatch(s) == ~Aborted(s) /\ s.state \notin {"ALARM", "ESTOP", "SLEEP"}

CallLine(req) ==
    /\ At("caller", "idle")
    /\ CanDispatch(sys)
    /\ budget.calls > 0
    /\ stack' = stack \o <<Frame("mc_line", "entry", [req |-> req])>>
    /\ g' = [g EXCEPT !.call = NewCall(req, sys, settings)]
    /\ budget' = [budget EXCEPT !.calls = @ - 1]
    /\ UNCHANGED <<ret, sys, rt_state, rt_alarm, pins, plan, hal, ovr, bl, lin,
                   settings>>

\* After an abort control unwinds to main(), which starts over.
CallerRestart ==
    /\ At("caller", "idle")
    /\ Aborted(sys)
    /\ sys' = Reinit(sys, pins, settings)
    /\ rt_state' = {}
    /\ rt_alarm' = NoAlarm
    /\ plan' = PlanReset(plan)
    /\ ovr' = <<>>
    /\ hal' = [hal EXCEPT !.running = FALSE]
    /\ bl' = mc_backlash_init(settings, plan.pos)
    /\ g' = [g EXCEPT !.bk = NoMoves(plan.pos)]
    /\ UNCHANGED <<stack, ret, pins, lin, settings, budget>>

\* $X: the alarm lock is released by the operator.
CallerUnlock ==
    /\ At("caller", "idle")
    /\ ~Aborted(sys)
    /\ sys.state = "ALARM"
    /\ sys' = set_state(sys, "IDLE")
    /\ UNCHANGED <<stack, ret, rt_state, rt_alarm, pins, plan, hal, ovr, bl, lin,
                   g, settings, budget>>

\* Line 1007: the idle checkpoint found no abort; cancel is cleared.
CallerClearCancel ==
    /\ At("caller", "idle")
    /\ ~sys.abort
    /\ sys.cancel
    /\ sys' = [sys EXCEPT !.cancel = FALSE]
    /\ UNCHANGED <<stack, ret, rt_state, rt_alarm, pins, plan, hal, ovr, bl, lin,
                   g, settings, budget>>

Caller ==
    \/ \E req \in Requests : CallLine(req)
    \/ CallerRestart
    \/ CallerClearCancel
    \/ CallerUnlock

\* ------------------------------------------------------------------- Init
\* gc_state.modal as the realtime layer uses it: spindle, coolant and the
\* override control of the parser.
ModalOff ==
    [spindle |-> FALSE, coolant |-> FALSE, feed_hold_disable |-> FALSE,
     sync |-> FALSE]

SysInit(state) ==
    [abort |-> FALSE, cancel |-> FALSE, state |-> state, execute_hold |-> FALSE,
     execute_sys_motion |-> FALSE, suspend |-> FALSE, feed_hold_disable |-> FALSE,
     feed_hold_pending |-> FALSE, delay_overrides |-> FALSE,
     sync |-> FALSE, modal |-> ModalOff,
     tool_change |-> FALSE,
     f_override |-> DEFAULT_FEED_OVERRIDE, exit |-> FALSE, homed |-> TRUE]

Origin == [i \in Axes |-> 0]

NoDispatch ==
    [kind |-> "none", state |-> "IDLE", status |-> "none", src |-> "none",
     overflow |-> FALSE, parsed |-> FALSE]

NoCycle ==
    [fn |-> "none", active |-> FALSE, failed |-> FALSE, issued |-> 0,
     planned |-> 0]

NoChar == [code |-> "none"]

NoThread ==
    [log |-> <<>>, t |-> [x |-> 0, z |-> 0, depth |-> 1, initial_depth |-> 1, peak |-> 0,
                          cut_direction |-> 1, spring_passes |-> 0, depth_degression |-> 1,
                          end_taper_type |-> "None", infeed_factor |-> 0],
     pref |-> FALSE,
     pl |-> [feed_hold_disable |-> FALSE, rapid_motion |-> FALSE,
             synchronized |-> FALSE]]

NoArc ==
    [target |-> Origin, start |-> Origin, check_mode |-> FALSE, quarters |-> 0,
     cw |-> FALSE, segments |-> 0]

\* system_execute_startup as seen from the entry of the main loop: whether it
\* was called, in which mode and whether after an abort.
NoStartup == [abort |-> FALSE, state |-> "none", run |-> FALSE]

\* The drill cycle called last, the lines it issued and the linear-axis
\* position of the target it handed back.
NoDrill ==
    [log |-> <<>>,
     d |-> [retract |-> 0, bottom |-> 0, delta |-> 1, chipbreak |-> FALSE,
            g73_retract |-> 0, prev |-> 0, incremental |-> FALSE,
            retract_mode |-> "RPos", rapid_retract |-> TRUE],
     out |-> [z |-> 0, returned |-> FALSE]]

NotLeft == [abort |-> FALSE, cancel |-> FALSE, exit |-> FALSE, at |-> "none"]

GInit ==
    [crit |-> FALSE,
     alarms |-> {}, wait_posted |-> FALSE, reports |-> 0, wait_reports |-> 0,
     eol |-> {},
     snap |-> {},
     acted |-> [status |-> FALSE, stop |-> FALSE, updated |-> FALSE,
                applied |-> FALSE, handed |-> {}],
     reset_drained |-> FALSE,
     reset_ctx |-> [alarmed |-> FALSE, prior |-> "IDLE"],
     call |-> [NewCall([rpm |-> 0, target |-> Origin,
                        spindle |-> [on |-> FALSE, ccw |-> FALSE], jog |-> FALSE],
                       SysInit("IDLE"), 0) EXCEPT !.active = FALSE],
     from |-> SysInit("IDLE"),
     bk |-> NoMoves(Origin),
     last |-> NoDispatch,
     cyc |-> NoCycle,
     left |-> NotLeft,
     ch |-> NoChar,
     arc |-> NoArc,
     thr |-> NoThread,
     startup |-> NoStartup,
     drl |-> NoDrill]

\* Line 781: the message buffer is not allocated before the first comment.
NoMessage == [message |-> FALSE, idx |-> 0, tracker |-> 0, show |-> FALSE]

LinInit ==
    [eol |-> "none", char_counter |-> 0, overflow |-> FALSE,
     line |-> "empty", xcommand |-> "none", gcode_error |-> FALSE,
     last_error |-> "OK", keep_rt_commands |-> FALSE, nocaps |-> FALSE,
     comment_parentheses |-> FALSE, comment_semicolon |-> FALSE,
     user_message |-> NoMessage]

InitCommon ==
    /\ ret = TRUE
    /\ rt_state = {}
    /\ rt_alarm = NoAlarm
    /\ pins = [e_stop |-> FALSE, door_ajar |-> FALSE, reset |-> FALSE,
               limits |-> FALSE]
    /\ plan = [blocks |-> <<>>, pos |-> Origin]
    /\ hal = [spindle |-> SpindleOff, coolant |-> FALSE, running |-> FALSE]
    /\ ovr = <<>>
    /\ settings \in Profiles
    /\ bl = mc_backlash_init(settings, Origin)
    /\ lin = LinInit
    /\ g = GInit
    /\ budget = [events |-> MaxEvents, calls |-> MaxCalls, drains |-> 0]

Init ==
    /\ InitCommon
    /\ stack = <<Frame("caller", "idle", NoLocals)>>
    /\ sys \in {SysInit("IDLE"), SysInit("CHECK_MODE")}

Next == Interrupt \/ Realtime \/ Gateway \/ Caller

Spec == Init /\ [][Next]_vars

\* ------------------------------------------------------ protocol_main_loop
MaxDrains == 3
MaxRtEvents == 3
MaxLines == 2

AtMain(pc) == At("protocol_main_loop", pc)

\* main(): a returning main loop is entered again after re-initialisation;
\* lines 806-857 of the new entry clear the injected command.
Restart ==
    /\ sys' = Reinit(sys, pins, settings)
    /\ rt_state' = {}
    /\ rt_alarm' = NoAlarm
    /\ plan' = PlanReset(plan)
    /\ ovr' = <<>>
    /\ hal' = [hal EXCEPT !.running = FALSE]
    /\ bl' = mc_backlash_init(settings, plan.pos)
    /\ lin' = [LinInit EXCEPT !.user_message =
                                 [lin.user_message EXCEPT !.show = FALSE]]
    /\ g' = [g EXCEPT !.left = [abort |-> sys.abort, cancel |-> sys.cancel,
                                exit |-> sys.exit, at |-> Top.pc],
                      !.bk = NoMoves(plan.pos)]
    /\ stack' = <<Frame("protocol_main_loop", "read", NoLocals)>>

\* Lines 909 and 991: the states in which g-code is refused.
GcodeLocked_AlarmOnly(s) == s.state = "ALARM"

GcodeLocked(s) == s.state \in {"ALARM", "ESTOP", "JOG"}

\* system_execute_line as far as the main loop sees it: $X releases the alarm
\* lock unless the limit switches are engaged.
system_execute_line(s, p, st) ==
    IF s.state = "ALARM"
    THEN IF st.hard_enabled /\ st.check_at_init /\ p.limits
         THEN [sys |-> s, status |-> "LimitsEngaged"]
         ELSE [sys |-> set_state(s, "IDLE"), status |-> "OK"]
    ELSE IF s.state = "ESTOP"
    THEN [sys |-> s, status |-> "EStop"]
    ELSE [sys |-> s, status |-> "OK"]

Lines ==
    {[kind |-> "gcode", overflow |-> FALSE], [kind |-> "gcode", overflow |-> TRUE],
     [kind |-> "system", overflow |-> FALSE], [kind |-> "user", overflow |-> FALSE],
     [kind |-> "empty", overflow |-> FALSE]}

\* Lines 875-886: an end of line arrives; the realtime checkpoint runs first.
ML_Eol(l) ==
    /\ AtMain("read")
    /\ budget.calls > 0
    /\ lin' = [lin EXCEPT !.line = l.kind, !.overflow = l.overflow,
                          !.char_counter = IF l.kind = "empty" THEN 0 ELSE 1]
    /\ stack' = CallRealtime(stack, "eol")
    /\ g' = [g EXCEPT !.eol = rt_state]
    /\ budget' = [budget EXCEPT !.calls = @ - 1]
    /\ UNCHANGED <<ret, sys, rt_state, rt_alarm, pins, plan, hal, ovr, bl,
                   settings>>

\* Lines 885-921: bail on abort, else direct the line and report its status.
\* gc_execute_block is opaque here: it accepts the block or reports an error.
ML_Dispatch(accept) ==
    /\ AtMain("eol")
    /\ IF ~ret
       THEN Restart
       ELSE LET kind == lin.line
                sl == system_execute_line(sys, pins, settings)
                how == CASE lin.overflow -> "overflow"
                         [] lin.char_counter = 0 /\ ~lin.user_message.show
                              -> "empty"
                         [] kind = "system" -> "system"
                         [] kind = "user" /\ settings.user_command_execute -> "user"
                         [] GcodeLocked(sys) -> "locked"
                         [] ~lin.gcode_error -> "parse"
                         [] OTHER -> "skip"
                status == CASE how = "overflow" -> "Overflow"
                            [] how = "empty" -> "OK"
                            [] how = "system" -> sl.status
                            [] how = "user" -> "OK"
                            [] how = "locked" -> "SystemGClock"
                            [] how = "parse" -> IF accept THEN "OK" ELSE "Error"
                            [] OTHER -> lin.last_error
            IN /\ sys' = IF how = "system"
                         THEN IF sl.status = "LimitsEngaged"
                              THEN set_state(sl.sys, "ALARM") ELSE sl.sys
                         ELSE sys
               /\ lin' = [lin EXCEPT
                          !.last_error = status,
                          !.gcode_error = CASE how \in {"system", "user"} -> FALSE
                                            [] how = "parse" -> status # "OK"
                                            [] OTHER -> @,
                          !.keep_rt_commands = FALSE, !.nocaps = FALSE,
                          !.user_message.show = FALSE,
                          !.char_counter = 0, !.overflow = FALSE,
                          !.comment_parentheses = FALSE,
                          !.comment_semicolon = FALSE,
                          !.line = "empty"]
               /\ g' = [g EXCEPT !.last =
                          [kind |-> kind, state |-> sys.state,
                           status |-> status, src |-> "stream",
                           overflow |-> lin.overflow, parsed |-> how = "parse"]]
               /\ stack' = Goto(stack, "read")
               /\ UNCHANGED <<rt_state, rt_alarm, plan, hal, ovr, bl>>
    /\ UNCHANGED <<ret, pins, settings, budget>>

\* Lines 987-1004: no more stream data; the injected command, if any, is
\* directed, then auto-cycle-start and the idle checkpoint.
ML_NoData ==
    /\ AtMain("read")
    /\ budget.drains > 0
    /\ LET x == lin.xcommand
           sl == system_execute_line(sys, pins, settings)
           how == CASE x = "none" -> "none"
                    [] x = "system" -> "system"
                    [] GcodeLocked(sys) -> "locked"
                    [] OTHER -> "parse"
       IN /\ sys' = IF how = "system" THEN sl.sys ELSE sys
          /\ lin' = [lin EXCEPT !.xcommand = "none"]
          /\ g' = IF how = "none" THEN g
                  ELSE [g EXCEPT !.last =
                          [kind |-> x, state |-> sys.state, status |-> IF how = "locked" THEN "SystemGClock"
                                                                       ELSE "none",
                           src |-> "xcommand",
                           overflow |-> FALSE,
                           parsed |-> how = "parse"]]
    /\ rt_state' = AutoCycleStart(rt_state, plan)
    /\ stack' = CallRealtime(stack, "checkpoint")
    /\ budget' = [budget EXCEPT !.drains = @ - 1]
    /\ UNCHANGED <<ret, rt_alarm, pins, plan, hal, ovr, bl, settings>>

\* Lines 1004-1007: bail to main() on abort, else clear cancel and go on.
ML_Checkpoint ==
    /\ AtMain("checkpoint")
    /\ IF ~ret /\ sys.abort
       THEN Restart
       ELSE /\ sys' = [sys EXCEPT !.cancel = FALSE]
            /\ stack' = Goto(stack, "read")
            /\ UNCHANGED <<rt_state, rt_alarm, plan, hal, ovr, bl, lin, g>>
    /\ UNCHANGED <<ret, pins, settings, budget>>

\* protocol_enqueue_gcode (lines 786-799), called outside the main loop.
protocol_enqueue_gcode(x) ==
    /\ Event
    /\ LET ok == /\ lin.xcommand = "none"
                 /\ sys.state \in {"IDLE", "JOG", "TOOL_CHANGE"}
                 /\ "MOTION_CANCEL" \notin rt_state
       IN lin' = IF ok THEN [lin EXCEPT !.xcommand = x] ELSE lin
    /\ budget' = Spend
    /\ UNCHANGED <<stack, ret, sys, rt_state, rt_alarm, pins, plan, hal, ovr, bl,
                   g, settings>>

\* ------------------------------------------- the realtime layer on its own
\* The main loop idling at its checkpoint (line 1004), with every control code
\* and interrupt source, over a planner that holds a queued block or none.
OneAhead == [i \in Axes |-> IF i = 1 THEN 1 ELSE 0]

Queued(kind) == [blocks |-> <<[target |-> OneAhead, kind |-> kind]>>,
                 pos |-> OneAhead]

InterruptRt ==
    \/ \E c \in FlagCmds : RT_Flag(c)
    \/ RT_Reset
    \/ RT_Exit
    \/ \E c \in FeedCmds : RT_Override(c)
    \/ ISR_EStop
    \/ ISR_HardLimit
    \/ ISR_Stepper

InitMainCommon ==
    /\ ret = TRUE
    /\ rt_state = {}
    /\ rt_alarm = NoAlarm
    /\ pins = [e_stop |-> FALSE, door_ajar |-> FALSE, reset |-> FALSE,
               limits |-> FALSE]
    /\ ovr = <<>>
    /\ lin = LinInit
    /\ g = GInit
    /\ stack = <<Frame("protocol_main_loop", "read", NoLocals)>>

InitRt ==
    /\ InitMainCommon
    /\ settings \in {st \in Profiles : st.soft_enabled /\ ~st.laser_mode}
    /\ \E start \in {<<"IDLE", "none">>, <<"IDLE", "line">>,
                     <<"CHECK_MODE", "none">>, <<"JOG", "jog">>} :
          /\ sys = SysInit(start[1])
          /\ plan = IF start[2] = "none" THEN [blocks |-> <<>>, pos |-> Origin]
                    ELSE Queued(start[2])
          /\ hal = [spindle |-> SpindleOff, coolant |-> FALSE,
                    running |-> start[1] = "JOG"]
    /\ bl = mc_backlash_init(settings, plan.pos)
    /\ budget = [events |-> MaxRtEvents, calls |-> 0, drains |-> MaxDrains]

NextRt == InterruptRt \/ Realtime \/ ML_NoData \/ ML_Checkpoint

SpecRt == InitRt /\ [][NextRt]_vars

\* ------------------------------------------------- the main loop and lines
InterruptMain ==
    \/ RT_Flag("CMD_SAFETY_DOOR")
    \/ RT_Reset
    \/ RT_Exit
    \/ ISR_EStop
    \/ \E x \in {"gcode", "system"} : protocol_enqueue_gcode(x)

InitMain ==
    /\ InitMainCommon
    /\ settings \in {[st EXCEPT !.user_command_execute = u,
                                  !.force_initialization_alarm = f] :
                        st \in {q \in Profiles : q.soft_enabled /\ ~q.laser_mode},
                        u \in BOOLEAN, f \in BOOLEAN}
    /\ sys = SysInit(EntryState(SysInit("IDLE"), pins, settings, TRUE))
    /\ plan = [blocks |-> <<>>, pos |-> Origin]
    /\ hal = [spindle |-> SpindleOff, coolant |-> FALSE, running |-> FALSE]
    /\ bl = mc_backlash_init(settings, plan.pos)
    /\ budget = [events |-> MaxRtEvents, calls |-> MaxLines, drains |-> MaxDrains]

NextMain ==
    \/ InterruptMain
    \/ Realtime
    \/ \E l \in Lines : ML_Eol(l)
    \/ \E accept \in BOOLEAN : ML_Dispatch(accept)
    \/ ML_NoData
    \/ ML_Checkpoint

SpecMain == InitMain /\ [][NextMain]_vars

\* ------------------------------------------- protocol_buffer_synchronize
\* Lines 1020-1023: request auto-cycle-start, then the first checkpoint.
SYNC_Entry ==
    /\ At("protocol_buffer_synchronize", "entry")
    /\ rt_state' = AutoCycleStart(rt_state, plan)
    /\ stack' = CallRealtime(stack, "checked")
    /\ UNCHANGED <<ret, sys, rt_alarm, pins, plan, hal, ovr, bl, lin, g,
                   settings, budget>>

\* Lines 1023-1025: loop while the checkpoint succeeds and motion remains.
SYNC_Checked ==
    /\ At("protocol_buffer_synchronize", "checked")
    /\ IF ret /\ (plan_get_current_block \/ sys.state = "CYCLE")
       THEN stack' = CallRealtime(stack, "checked")
       ELSE stack' = Popped(stack)
    /\ UNCHANGED <<ret, sys, rt_state, rt_alarm, pins, plan, hal, ovr, bl, lin,
                   g, settings, budget>>

\* mc_dwell (lines 525-531): outside check mode, synchronize first.
Dwell(s, next) ==
    IF sys.state # "CHECK_MODE"
    THEN Goto(s, next) \o
         <<Frame("protocol_buffer_synchronize", "entry", NoLocals)>>
    ELSE Goto(s, next)

\* ------------------------------------------------- cycles built on mc_line
\* `if(!mc_line(...)) return;`
Bails_Never(r) == FALSE

Bails(r) == ~r

Pt(x, z) == [i \in Axes |-> IF i = 1 THEN x ELSE z]

PlainLine(target) ==
    [rpm |-> 0, target |-> target, spindle |-> [on |-> FALSE, ccw |-> FALSE],
     jog |-> FALSE]

\* A call of mc_line from a cycle, which resumes at `next` if it goes on.
IssueLine(target, v, next) ==
    /\ stack' = SetV(Goto(stack, "after_line"), [v EXCEPT !.next = next]) \o
                <<Frame("mc_line", "entry", [req |-> PlainLine(target)])>>
    /\ g' = [g EXCEPT !.call = NewCall(PlainLine(target), sys, settings),
                      !.cyc.issued = @ + 1]

\* The return from such a call: bail on false, else resume; "return" marks a
\* call after which the cycle returns either way.
AfterLine(fn, v) ==
    /\ At(fn, "after_line")
    /\ IF Bails(ret) \/ Top.v.next = "return"
       THEN /\ stack' = Popped(stack)
            /\ g' = [g EXCEPT !.cyc.failed = @ \/ ~ret, !.cyc.active = FALSE]
       ELSE /\ stack' = SetV(Goto(stack, Top.v.next), v)
            /\ g' = [g EXCEPT !.cyc.failed = @ \/ ~ret]
    /\ UNCHANGED <<ret, sys, rt_state, rt_alarm, pins, plan, hal, ovr, bl, lin,
                   settings, budget>>

Leave ==
    /\ stack' = Popped(stack)
    /\ g' = [g EXCEPT !.cyc.active = FALSE]

Step(pc, v) ==
    /\ stack' = SetV(Goto(stack, pc), v)
    /\ UNCHANGED g

\* ------------------------------------------------------------------ mc_arc
\* Angles are counted in quarter turns, counter-clockwise positive; a point of
\* the circle is written by the angle travelled to it from the start of the
\* arc, in units of 1/ArcUnit of a quarter turn, on the first axis.
QuarterTurns == 4
ArcUnit == 12

\* Line 182: atan2f of the start and target radius vectors, for a target
\* `quarters` quarter turns counter-clockwise of the start: a value in
\* (-pi, pi].
atan2f(quarters) == IF quarters = 3 THEN 0 - 1 ELSE quarters

\* Lines 184-190: the travel in the commanded direction; a travel within
\* ARC_ANGULAR_TRAVEL_EPSILON of zero becomes a full turn.
angular_travel_AsMeasured(quarters, cw) == atan2f(quarters)

angular_travel(quarters, cw) ==
    LET a == atan2f(quarters)
    IN IF cw THEN IF a >= 0 THEN a - QuarterTurns ELSE a
       ELSE IF a <= 0 THEN a + QuarterTurns ELSE a

Abs(x) == IF x < 0 THEN 0 - x ELSE x

\* Line 196: floorf(fabsf(0.5 * angular_travel * radius) / sqrtf(tolerance *
\* (2 * radius - tolerance))), with the segments per quarter turn that radius
\* and tolerance give written as the fraction rate[1] / rate[2].
arc_segments(travel, rate) == (Abs(travel) * rate[1]) \div rate[2]

\* The point reached after `t` units of angle from the point `start`.
ArcAt(start, t) ==
    [start EXCEPT ![1] = @ + (t % (QuarterTurns * ArcUnit))]

\* Lines 246-270: intermediate point i of the arc.
ArcPoint(v, i) == ArcAt(v.start, (i * v.travel * ArcUnit) \div v.segments)

\* Line 246: for (i = 1; i < segments; i++).
MoreSegments_Inclusive(v) == v.i <= v.segments

MoreSegments(v) == v.i < v.segments

\* Lines 246-275: segments - 1 intermediate points, then the target.
ARC_Loop ==
    /\ At("mc_arc", "loop")
    /\ LET v == Top.v
       IN IF MoreSegments(v)
          THEN IssueLine(ArcPoint(v, v.i), v, "loop")
          ELSE IssueLine(v.target, v, "return")
    /\ UNCHANGED <<ret, sys, rt_state, rt_alarm, pins, plan, hal, ovr, bl, lin,
                   settings, budget>>

ARC_AfterLine == AfterLine("mc_arc", [Top.v EXCEPT !.i = @ + 1])

\* --------------------------------------------------------- mc_canned_drill
\* A call of mc_line from the drill cycle: the step it belongs to, the rapid
\* flag pl_data carries and the depth it goes to are recorded.
IssueDrill(step, target, v, next) ==
    /\ stack' = SetV(Goto(stack, "after_line"), [v EXCEPT !.next = next]) \o
                <<Frame("mc_line", "entry", [req |-> PlainLine(target)])>>
    /\ g' = [g EXCEPT !.call = NewCall(PlainLine(target), sys, settings),
                      !.cyc.issued = @ + 1,
                      !.drl.log = Append(@, [z |-> target[2], step |-> step,
                                             rapid |-> v.rapid])]

\* Lines 312-314: one peck deeper, the bottom at most.
peck_depth_Unclamped(current_z, d) == current_z - d.delta

peck_depth(current_z, d) ==
    IF current_z - d.delta < d.bottom THEN d.bottom ELSE current_z - d.delta

\* Lines 328-339: where the retract after a peck goes.
retract_depth(z, d) ==
    IF d.chipbreak
    THEN IF z = d.bottom THEN d.retract ELSE z + d.g73_retract
    ELSE d.retract

\* Lines 280-288: the rapid flag is set; below R, rapid up to R first.
DRILL_Start ==
    /\ At("mc_canned_drill", "start")
    /\ LET v == [Top.v EXCEPT !.rapid = TRUE]
       IN IF v.z < v.d.retract
          THEN IssueDrill("up_to_r", Pt(v.x, v.d.retract),
                          [v EXCEPT !.z = v.d.retract], "xy")
          ELSE Step("xy", v)
    /\ UNCHANGED <<ret, sys, rt_state, rt_alarm, pins, plan, hal, ovr, bl, lin,
                   settings, budget>>

\* Lines 291-294: rapid to X, Y at the higher of the previous Z and R.
DRILL_XY ==
    /\ At("mc_canned_drill", "xy")
    /\ LET v == Top.v
           z == IF v.prev > v.d.retract THEN v.prev ELSE v.d.retract
       IN IssueDrill("xy", Pt(v.d.tx, z), [v EXCEPT !.x = v.d.tx, !.z = z],
                     "to_r")
    /\ UNCHANGED <<ret, sys, rt_state, rt_alarm, pins, plan, hal, ovr, bl, lin,
                   settings, budget>>

\* Lines 297-301: above R, rapid down to R.
DRILL_ToR ==
    /\ At("mc_canned_drill", "to_r")
    /\ LET v == Top.v
       IN IF v.z > v.d.retract
          THEN IssueDrill("down_to_r", Pt(v.x, v.d.retract),
                          [v EXCEPT !.z = v.d.retract], "mode")
          ELSE Step("mode", v)
    /\ UNCHANGED <<ret, sys, rt_state, rt_alarm, pins, plan, hal, ovr, bl, lin,
                   settings, budget>>

\* Lines 303-308: the retract mode, then one repeat or the end of them.
DRILL_Repeat ==
    /\ Depth > 0 /\ Top.fn = "mc_canned_drill" /\ Top.pc \in {"mode", "repeat"}
    /\ LET v0 == Top.v
           v == IF Top.pc = "mode" /\ v0.d.retract_mode = "RPos"
                THEN [v0 EXCEPT !.prev = v0.d.retract] ELSE v0
       IN IF v.repeats = 0
          THEN Step("final", v)
          ELSE Step("peck", [v EXCEPT !.repeats = @ - 1,
                                      !.current_z = v.d.retract])
    /\ UNCHANGED <<ret, sys, rt_state, rt_alarm, pins, plan, hal, ovr, bl, lin,
                   settings, budget>>

\* The plunges a call of the drill cycle is followed for.
MaxPecks == 3

\* Lines 310-320: the next peck, no deeper than the bottom, as a feed move.
DRILL_Peck ==
    /\ At("mc_canned_drill", "peck")
    /\ LET v == Top.v
           cz == peck_depth(v.current_z, v.d)
       IN IF v.current_z > v.d.bottom
          THEN /\ v.pecks < MaxPecks
               /\ IssueDrill("plunge", Pt(v.x, cz),
                             [v EXCEPT !.current_z = cz, !.z = cz,
                                       !.rapid = FALSE, !.pecks = @ + 1],
                             "dwell")
          ELSE Step("next", v)
    /\ UNCHANGED <<ret, sys, rt_state, rt_alarm, pins, plan, hal, ovr, bl, lin,
                   settings, budget>>

\* Lines 322-323: dwell at the bottom of the peck.
DRILL_Dwell ==
    /\ At("mc_canned_drill", "dwell")
    /\ stack' = IF Top.v.d.dwell THEN Dwell(stack, "retract")
                ELSE Goto(stack, "retract")
    /\ UNCHANGED <<ret, sys, rt_state, rt_alarm, pins, plan, hal, ovr, bl, lin,
                   g, settings, budget>>

\* Lines 325-344: spindle off if asked, then the retract, rapid if the
\* cycle says so.
DRILL_Retract ==
    /\ At("mc_canned_drill", "retract")
    /\ LET v == Top.v
           z == retract_depth(v.z, v.d)
       IN IssueDrill("retract", Pt(v.x, z),
                     [v EXCEPT !.z = z, !.rapid = v.d.rapid_retract], "resync")
    /\ hal' = IF Top.v.d.spindle_off THEN [hal EXCEPT !.spindle = SpindleOff]
              ELSE hal
    /\ UNCHANGED <<ret, sys, rt_state, rt_alarm, pins, plan, ovr, bl, lin,
                   settings, budget>>

\* Lines 346-347: the spindle is restored after the retract.
DRILL_Resync ==
    /\ At("mc_canned_drill", "resync")
    /\ hal' = IF Top.v.d.spindle_off
              THEN [hal EXCEPT !.spindle = Top.v.d.spindle] ELSE hal
    /\ stack' = Goto(stack, "peck")
    /\ UNCHANGED <<ret, sys, rt_state, rt_alarm, pins, plan, ovr, bl, lin, g,
                   settings, budget>>

\* Lines 351-357: in incremental mode, rapid to the next position.
DRILL_Next ==
    /\ At("mc_canned_drill", "next")
    /\ LET v == Top.v
       IN IF v.repeats # 0 /\ v.d.incremental
          THEN IssueDrill("next", Pt(v.x + v.d.dx, v.prev),
                          [v EXCEPT !.x = @ + v.d.dx, !.z = v.prev], "repeat")
          ELSE Step("repeat", v)
    /\ UNCHANGED <<ret, sys, rt_state, rt_alarm, pins, plan, hal, ovr, bl, lin,
                   settings, budget>>

\* Line 362: whether the cycle ends with a retract to the previous Z.
final_retract_AnyMotion(v) == v.d.retract_mode = "Previous" /\ v.z < v.prev

final_retract(v) ==
    v.d.retract_mode = "Previous" /\ ~v.d.chipbreak /\ v.z < v.prev

\* Lines 360-367: the position is copied to the caller's target; the retract
\* to the previous Z, when it is due, is made on that target.
DRILL_Final ==
    /\ At("mc_canned_drill", "final")
    /\ LET v == Top.v
           out == [z |-> IF final_retract(v) THEN v.prev ELSE v.z,
                   returned |-> TRUE]
       IN IF final_retract(v)
          THEN /\ stack' = SetV(Goto(stack, "after_line"),
                                [v EXCEPT !.rapid = TRUE, !.z = v.prev,
                                          !.next = "return"]) \o
                           <<Frame("mc_line", "entry",
                                   [req |-> PlainLine(Pt(v.x, v.prev))])>>
               /\ g' = [g EXCEPT
                          !.call = NewCall(PlainLine(Pt(v.x, v.prev)), sys,
                                           settings),
                          !.cyc.issued = @ + 1,
                          !.drl.log = Append(@, [z |-> v.prev,
                                                 step |-> "final",
                                                 rapid |-> TRUE]),
                          !.drl.out = out]
          ELSE /\ stack' = Popped(stack)
               /\ g' = [g EXCEPT !.cyc.active = FALSE, !.drl.out = out]
    /\ UNCHANGED <<ret, sys, rt_state, rt_alarm, pins, plan, hal, ovr, bl, lin,
                   settings, budget>>

DRILL_AfterLine == AfterLine("mc_canned_drill", Top.v)

\* --------------------------------------------------------------- mc_thread
\* A call of mc_line from mc_thread: the request carries what pl_data holds
\* at the call, and the line is noted with the step that issued it.
IssueThread(step, target, v, next) ==
    /\ stack' = SetV(Goto(stack, "after_line"), [v EXCEPT !.next = next]) \o
                <<Frame("mc_line", "entry", [req |-> PlainLine(target)])>>
    /\ g' = [g EXCEPT !.call = NewCall(PlainLine(target), sys, settings),
                      !.cyc.issued = @ + 1,
                      !.thr.log = Append(@, [x |-> target[1], z |-> target[2],
                                             pl |-> v.pl, step |-> step,
                                             doc |-> v.doc])]

\* powf((float)pass, 1 / degression) for a degression of 1 or 2, in tenths
\* and rounded down.
powf(pass, degression) ==
    IF degression = 1 THEN 10 * pass
    ELSE CHOOSE r \in 0..(10 * pass) :
            r * r <= 100 * pass /\ (r + 1) * (r + 1) > 100 * pass

\* Lines 371-374: the depth of cut of a pass.
calc_thread_doc(pass, cut_depth, degression) ==
    (cut_depth * powf(pass, degression)) \div 10

\* The passes the counting loop of line 395 is followed for.
MaxPasses == 4

Min(a, b) == IF a < b THEN a ELSE b

\* Lines 385-407: the locals mc_thread starts with.
ThreadLocals(t) ==
    LET factor == CASE t.end_taper_type = "None" -> 0
                    [] t.end_taper_type = "Both" -> 2
                    [] OTHER -> 1
        len0 == t.z_final - t.z
        etl == IF len0 > 0 THEN 0 - t.end_taper_length ELSE t.end_taper_length
    IN [t |-> t, x |-> t.x, z |-> t.z, next |-> "count", doc |-> t.initial_depth,
        pass |-> 1,
        end_taper_length |-> etl,
        passes |-> 0,
        thread_length |-> len0 + etl * factor]

\* Lines 395-397: count the passes up to the first whose depth of cut
\* reaches the thread depth, then add the spring passes and one. `passes` is
\* a uint_fast16_t.
THREAD_Count ==
    /\ At("mc_thread", "count")
    /\ Top.v.passes < MaxPasses
    /\ LET v == [Top.v EXCEPT !.passes = (@ + 1) % 65536]
       IN IF calc_thread_doc(v.passes, v.doc, v.t.depth_degression) < v.t.depth
          THEN Step("count", v)
          ELSE Step("start", [v EXCEPT !.passes =
                                 (@ + v.t.spring_passes + 1) % 65536])
    /\ UNCHANGED <<ret, sys, rt_state, rt_alarm, pins, plan, hal, ovr, bl, lin,
                   settings, budget>>

\* doc / depth applied to a length, as lines 424-426 compute it.
Taper(v, len) == (len * v.doc) \div v.t.depth

\* Lines 416-420: the initial Z move for the compound slide angle.
THREAD_Start ==
    /\ At("mc_thread", "start")
    /\ LET v == Top.v
           z == v.z + v.t.depth * v.t.infeed_factor
       IN IF v.t.infeed_factor # 0
          THEN IssueThread("initial", Pt(v.x, z), [v EXCEPT !.z = z], "pass")
          ELSE Step("pass", v)
    /\ UNCHANGED <<ret, sys, rt_state, rt_alarm, pins, plan, hal, ovr, bl, lin,
                   settings, budget>>

\* Lines 422-432: the next pass, if one is left; without taper, move to depth.
THREAD_Pass ==
    /\ At("mc_thread", "pass")
    /\ LET v == [Top.v EXCEPT !.passes = @ - 1]
           x == v.x + (v.t.peak + v.doc) * v.t.cut_direction
       IN IF v.passes = 0
          THEN Leave
          ELSE IF v.t.end_taper_type = "None"
          THEN IssueThread("depth", Pt(x, v.z), [v EXCEPT !.x = x], "dwell")
          ELSE Step("dwell", v)
    /\ UNCHANGED <<ret, sys, rt_state, rt_alarm, pins, plan, hal, ovr, bl, lin,
                   settings, budget>>

\* Lines 430-432: pl_data as the cut has it.
CutData_HoldAllowed(pl) ==
    [pl EXCEPT !.rapid_motion = FALSE, !.synchronized = TRUE]

CutData(pl) ==
    [feed_hold_disable |-> TRUE, rapid_motion |-> FALSE, synchronized |-> TRUE]

\* Lines 468-469: pl_data as the retract has it.
RetractData(pl) == [pl EXCEPT !.rapid_motion = TRUE, !.synchronized = FALSE]

\* Lines 430-438: spindle sync and feed-hold disable are switched on, then
\* the short dwell before the synchronized cut.
THREAD_Dwell ==
    /\ At("mc_thread", "dwell")
    /\ stack' = Dwell(SetV(stack, [Top.v EXCEPT !.pl = CutData(@)]), "entry")
    /\ UNCHANGED <<ret, sys, rt_state, rt_alarm, pins, plan, hal, ovr, bl, lin,
                   g, settings, budget>>

\* Lines 443-448: entry taper, first move.
THREAD_Entry ==
    /\ At("mc_thread", "entry")
    /\ LET v == Top.v
           x == v.x + (v.t.peak + v.doc - Taper(v, v.t.depth)) * v.t.cut_direction
       IN IF v.t.end_taper_type \in {"Entry", "Both"}
          THEN IssueThread("entry", Pt(x, v.z), [v EXCEPT !.x = x],
                           "entry_taper")
          ELSE Step("main", v)
    /\ UNCHANGED <<ret, sys, rt_state, rt_alarm, pins, plan, hal, ovr, bl, lin,
                   settings, budget>>

\* Lines 450-453 and 466-469: a taper move, into the cut or out of it.
THREAD_Taper ==
    /\ Depth > 0 /\ Top.fn = "mc_thread" /\ Top.pc \in {"entry_taper", "exit"}
    /\ LET v == Top.v
           x == v.x + Taper(v, v.t.depth) * v.t.cut_direction
           z == v.z - Taper(v, v.end_taper_length)
           next == IF Top.pc = "exit" THEN "retract" ELSE "main"
       IN IF Top.pc = "entry_taper" \/ v.t.end_taper_type \in {"Exit", "Both"}
          THEN IssueThread(IF Top.pc = "exit" THEN "exit_taper" ELSE "entry_taper",
                           Pt(x, z), [v EXCEPT !.x = x, !.z = z], next)
          ELSE Step(next, v)
    /\ UNCHANGED <<ret, sys, rt_state, rt_alarm, pins, plan, hal, ovr, bl, lin,
                   settings, budget>>

\* Lines 457-462: the main part of the cut.
THREAD_Main ==
    /\ At("mc_thread", "main")
    /\ LET v == Top.v
           x == v.x + v.t.main_taper_height * v.t.cut_direction
           z == v.z + v.thread_length
       IN IF v.thread_length # 0
          THEN IssueThread("main", Pt(x, z), [v EXCEPT !.x = x, !.z = z], "exit")
          ELSE Step("exit", v)
    /\ UNCHANGED <<ret, sys, rt_state, rt_alarm, pins, plan, hal, ovr, bl, lin,
                   settings, budget>>

\* Lines 468-474: spindle sync off, then retract to the start X.
THREAD_Retract ==
    /\ At("mc_thread", "retract")
    /\ LET v == [Top.v EXCEPT !.pl = RetractData(@)]
       IN IssueThread("retract", Pt(v.t.x, v.z), [v EXCEPT !.x = v.t.x], "back")
    /\ UNCHANGED <<ret, sys, rt_state, rt_alarm, pins, plan, hal, ovr, bl, lin,
                   settings, budget>>

\* Lines 480-494: with passes left, the next depth of cut and back to start.
THREAD_Back ==
    /\ At("mc_thread", "back")
    /\ LET v == Top.v
           doc == Min(calc_thread_doc(v.pass + 1, v.t.initial_depth,
                                      v.t.depth_degression), v.t.depth)
           z == v.t.z + (v.t.depth - doc) * v.t.infeed_factor
       IN IF v.passes > 1
          THEN IssueThread("reposition", Pt(v.x, z),
                           [v EXCEPT !.pass = @ + 1, !.doc = doc, !.z = z,
                                     !.pl.feed_hold_disable = v.pref], "pass")
          ELSE Step("pass", [v EXCEPT !.doc = v.t.depth])
    /\ UNCHANGED <<ret, sys, rt_state, rt_alarm, pins, plan, hal, ovr, bl, lin,
                   settings, budget>>

THREAD_AfterLine == AfterLine("mc_thread", Top.v)

\* ------------------------------------------------- the cycles and their caller
MaxSegments == 4
MaxCycles == 1

Drills ==
    {[spindle |-> SpindleOff, retract |-> 1, bottom |-> 0, delta |-> 1, chipbreak |-> FALSE, g73_retract |-> 1,
      prev |-> 2, incremental |-> TRUE, retract_mode |-> "Previous", rapid_retract |-> TRUE,
      tx |-> 1, repeats |-> 2, dwell |-> TRUE,
      spindle_off |-> FALSE, dx |-> 1, z0 |-> 0],
     [spindle |-> [on |-> TRUE, ccw |-> FALSE, rpm |-> 9], retract |-> 3, bottom |-> 0, delta |-> 2, chipbreak |-> TRUE, g73_retract |-> 1,
      prev |-> 3, incremental |-> FALSE, retract_mode |-> "RPos", rapid_retract |-> FALSE,
      tx |-> 1, repeats |-> 1, dwell |-> FALSE,
      spindle_off |-> TRUE, dx |-> 0,
      z0 |-> 3],
     [spindle |-> SpindleOff, retract |-> 1, bottom |-> 0, delta |-> 1, chipbreak |-> TRUE, g73_retract |-> 1,
      prev |-> 2, incremental |-> FALSE, retract_mode |-> "Previous", rapid_retract |-> FALSE,
      tx |-> 1, repeats |-> 1, dwell |-> FALSE,
      spindle_off |-> FALSE, dx |-> 0, z0 |-> 2],
     [spindle |-> SpindleOff, retract |-> 1, bottom |-> 0, delta |-> 1, chipbreak |-> FALSE, g73_retract |-> 1,
      prev |-> 0, incremental |-> TRUE, retract_mode |-> "Previous", rapid_retract |-> FALSE,
      tx |-> 1, repeats |-> 2, dwell |-> FALSE,
      spindle_off |-> FALSE, dx |-> 1, z0 |-> 0],
     [spindle |-> SpindleOff, retract |-> 1, bottom |-> 0, delta |-> 0, chipbreak |-> FALSE, g73_retract |-> 1,
      prev |-> 1, incremental |-> FALSE, retract_mode |-> "RPos", rapid_retract |-> TRUE,
      tx |-> 0, repeats |-> 1, dwell |-> FALSE,
      spindle_off |-> FALSE, dx |-> 0, z0 |-> 1]}

Threads ==
    {[x |-> 0, z |-> 0, depth |-> 2, initial_depth |-> 1, peak |-> 0,
      cut_direction |-> 1, spring_passes |-> 0, depth_degression |-> 1,
      end_taper_type |-> "None", infeed_factor |-> 1, z_final |-> 1,
      end_taper_length |-> 0, main_taper_height |-> 0],
     [x |-> 0, z |-> 0, depth |-> 1, initial_depth |-> 1, peak |-> 0,
      cut_direction |-> 1, spring_passes |-> 0, depth_degression |-> 1,
      end_taper_type |-> "Both", infeed_factor |-> 0, z_final |-> 0,
      end_taper_length |-> 1, main_taper_height |-> 0],
     [x |-> 0, z |-> 0, depth |-> 3, initial_depth |-> 2, peak |-> 1,
      cut_direction |-> 1, spring_passes |-> 1, depth_degression |-> 2,
      end_taper_type |-> "Exit", infeed_factor |-> 0, z_final |-> 2,
      end_taper_length |-> 1, main_taper_height |-> 0],
     [x |-> 0, z |-> 0, depth |-> 2, initial_depth |-> 3, peak |-> 0,
      cut_direction |-> 1, spring_passes |-> 1, depth_degression |-> 1,
      end_taper_type |-> "None", infeed_factor |-> 0, z_final |-> 1,
      end_taper_length |-> 0, main_taper_height |-> 0],
     [x |-> 0, z |-> 0, depth |-> 2, initial_depth |-> 0, peak |-> 0,
      cut_direction |-> 1, spring_passes |-> 0, depth_degression |-> 1,
      end_taper_type |-> "None", infeed_factor |-> 0, z_final |-> 1,
      end_taper_length |-> 0, main_taper_height |-> 0]}

StartCycle(fn, v, planned) ==
    /\ At("caller", "idle")
    /\ CanDispatch(sys)
    /\ budget.calls > 0
    /\ stack' = stack \o <<Frame(fn, v.next, v)>>
    /\ g' = [g EXCEPT !.cyc = [fn |-> fn, active |-> TRUE, failed |-> FALSE,
                               issued |-> 0, planned |-> planned]]
    /\ budget' = [budget EXCEPT !.calls = @ - 1]
    /\ UNCHANGED <<ret, sys, rt_state, rt_alarm, pins, plan, hal, ovr, bl, lin,
                   settings>>

\* The segments per quarter turn: 4/5 is the least a radius and a tolerance
\* can give (tolerance = radius gives pi/4).
ArcRates == {<<4, 5>>, <<1, 1>>}

\* The arcs commanded: the target a number of quarter turns counter-clockwise
\* of the start, the direction, and the segment rate.
Arcs ==
    {a \in [quarters : 0..(QuarterTurns - 1), cw : BOOLEAN, rate : ArcRates] :
        arc_segments(angular_travel(a.quarters, a.cw), a.rate) <= MaxSegments}

\* Lines 168-196: what mc_arc computes before its loop.
ArcLocals(a, position) ==
    LET travel == angular_travel(a.quarters, a.cw)
    IN [i |-> 1,
        target |-> ArcAt(position, a.quarters * ArcUnit),
        start |-> position,
        segments |-> arc_segments(travel, a.rate),
        next |-> "loop", travel |-> travel]

CallArc(a) ==
    /\ At("caller", "idle")
    /\ CanDispatch(sys)
    /\ budget.calls > 0
    /\ LET v == ArcLocals(a, plan.pos)
       IN /\ stack' = stack \o <<Frame("mc_arc", v.next, v)>>
          /\ g' = [g EXCEPT
                     !.cyc = [fn |-> "mc_arc", active |-> TRUE, failed |-> FALSE,
                              issued |-> 0,
                              planned |-> IF v.segments > 0 THEN v.segments
                                          ELSE 1],
                     !.arc = [target |-> v.target, start |-> v.start,
                              check_mode |-> sys.state = "CHECK_MODE", quarters |-> a.quarters,
                              cw |-> a.cw,
                              segments |-> v.segments]]
    /\ budget' = [budget EXCEPT !.calls = @ - 1]
    /\ UNCHANGED <<ret, sys, rt_state, rt_alarm, pins, plan, hal, ovr, bl, lin,
                   settings>>

CallDrill(d) ==
    /\ At("caller", "idle")
    /\ CanDispatch(sys)
    /\ budget.calls > 0
    /\ LET v == [x |-> 0, z |-> d.z0, d |-> d, prev |-> d.prev,
                 next |-> "start", rapid |-> FALSE,
                 current_z |-> d.retract, repeats |-> d.repeats, pecks |-> 0]
       IN stack' = stack \o <<Frame("mc_canned_drill", v.next, v)>>
    /\ g' = [g EXCEPT !.cyc = [fn |-> "mc_canned_drill", active |-> TRUE,
                               failed |-> FALSE, issued |-> 0, planned |-> 0],
                      !.drl = [log |-> <<>>, d |-> d,
                               out |-> [z |-> 0, returned |-> FALSE]]]
    /\ budget' = [budget EXCEPT !.calls = @ - 1]
    /\ UNCHANGED <<ret, sys, rt_state, rt_alarm, pins, plan, hal, ovr, bl, lin,
                   settings>>

\* Lines 383 and 409: the caller's pl_data with the rapid flag set, and the
\* caller's feed-hold-disable preference.
CallThread(t, feed_hold_disabled) ==
    /\ At("caller", "idle")
    /\ CanDispatch(sys)
    /\ budget.calls > 0
    /\ LET v == ThreadLocals(t) @@
                [pref |-> feed_hold_disabled,
                 pl |-> [feed_hold_disable |-> feed_hold_disabled, rapid_motion |-> TRUE,
                         synchronized |-> FALSE]]
       IN /\ stack' = stack \o <<Frame("mc_thread", v.next, v)>>
          /\ g' = [g EXCEPT
                     !.cyc = [fn |-> "mc_thread", active |-> TRUE,
                              failed |-> FALSE, issued |-> 0, planned |-> 0],
                     !.thr = [log |-> <<>>, t |-> t,
                              pref |-> feed_hold_disabled, pl |-> v.pl]]
    /\ budget' = [budget EXCEPT !.calls = @ - 1]
    /\ UNCHANGED <<ret, sys, rt_state, rt_alarm, pins, plan, hal, ovr, bl, lin,
                   settings>>

Cycles ==
    \/ ARC_Loop \/ ARC_AfterLine
    \/ DRILL_Start \/ DRILL_XY \/ DRILL_ToR \/ DRILL_Repeat \/ DRILL_Peck
    \/ DRILL_Dwell \/ DRILL_Retract \/ DRILL_Resync \/ DRILL_Next
    \/ DRILL_Final \/ DRILL_AfterLine
    \/ THREAD_Count \/ THREAD_Start \/ THREAD_Pass \/ THREAD_Dwell \/ THREAD_Entry
    \/ THREAD_Taper \/ THREAD_Main \/ THREAD_Retract \/ THREAD_Back
    \/ THREAD_AfterLine
    \/ SYNC_Entry \/ SYNC_Checked

CycleCaller ==
    \/ \E a \in Arcs : CallArc(a)
    \/ \E d \in Drills : CallDrill(d)
    \/ \E t \in Threads, fhd \in BOOLEAN : CallThread(t, fhd)
    \/ CallerRestart
    \/ CallerClearCancel
    \/ CallerUnlock

InitMotion ==
    /\ ret = TRUE
    /\ rt_state = {}
    /\ rt_alarm = NoAlarm
    /\ pins = [e_stop |-> FALSE, door_ajar |-> FALSE, reset |-> FALSE,
               limits |-> FALSE]
    /\ plan = [blocks |-> <<>>, pos |-> Origin]
    /\ hal = [spindle |-> SpindleOff, coolant |-> FALSE, running |-> FALSE]
    /\ ovr = <<>>
    /\ settings \in {st \in Profiles : ~st.soft_enabled /\ ~st.laser_mode}
    /\ bl = mc_backlash_init(settings, Origin)
    /\ lin = LinInit
    /\ g = GInit
    /\ budget = [events |-> MaxEvents, calls |-> MaxCycles, drains |-> 0]
    /\ stack = <<Frame("caller", "idle", NoLocals)>>
    /\ sys \in {SysInit("IDLE"), SysInit("CHECK_MODE")}

NextMotion == Interrupt \/ Realtime \/ Gateway \/ Cycles \/ CycleCaller

SpecMotion == InitMotion /\ [][NextMotion]_vars

\* ------------------------------------------- protocol_main_loop: entry
MaxEntryEvents == 2

\* Lines 806-841: the entry state; in IDLE with the door open and not ignored,
\* the door flag is set next.
ML_Enter ==
    /\ AtMain("enter")
    /\ LET st == EntryState(sys, pins, settings, Top.v.cold)
           door == st = "IDLE" /\ ~settings.safety_door_ignore_when_idle
                      /\ pins.door_ajar
       IN /\ sys' = set_state(sys, st)
          /\ stack' = IF door THEN Goto(stack, "door_read")
                      ELSE SetV(Goto(stack, "read"), NoLocals)
          /\ g' = IF st = "IDLE" /\ ~door
                  THEN [g EXCEPT !.startup = [abort |-> sys.abort, state |-> "IDLE",
                                              run |-> TRUE]]
                  ELSE g
    /\ UNCHANGED <<ret, rt_state, rt_alarm, pins, plan, hal, ovr, bl, lin,
                   settings, budget>>

\* Line 839, bit_true(sys_rt_exec_state, EXEC_SAFETY_DOOR): a plain |= on the
\* volatile register. First half: the register is read.
ML_DoorRead ==
    /\ AtMain("door_read")
    /\ stack' = SetV(Goto(stack, "door_write"), [seen |-> rt_state])
    /\ UNCHANGED <<ret, sys, rt_state, rt_alarm, pins, plan, hal, ovr, bl, lin,
                   g, settings, budget>>

\* Line 839, second half, and line 840: the value read, with the door bit
\* set, is written back; then the realtime checkpoint is called.
ML_DoorWrite ==
    /\ AtMain("door_write")
    /\ rt_state' = Top.v.seen \cup {"SAFETY_DOOR"}
    /\ stack' = CallRealtime(SetV(stack, NoLocals), "after_door")
    /\ UNCHANGED <<ret, sys, rt_alarm, pins, plan, hal, ovr, bl, lin, g,
                   settings, budget>>

\* Lines 840-857: the checkpoint's result is not looked at; the startup
\* script is executed and the loop starts.
ML_AfterDoor ==
    /\ AtMain("after_door")
    /\ stack' = Goto(stack, "read")
    /\ lin' = LinInit
    /\ g' = [g EXCEPT !.startup = [abort |-> sys.abort, state |-> sys.state,
                                   run |-> TRUE]]
    /\ UNCHANGED <<ret, sys, rt_state, rt_alarm, pins, plan, hal, ovr, bl,
                   settings, budget>>

EntryCmds == {"CMD_STOP", "CMD_STATUS_REPORT", "CMD_CYCLE_START"}

InterruptEntry ==
    \/ \E c \in EntryCmds : RT_Flag(c)
    \/ RT_Reset
    \/ ISR_HardLimit

InitEntry ==
    /\ ret = TRUE
    /\ rt_state = {}
    /\ rt_alarm = NoAlarm
    /\ pins \in {[e_stop |-> FALSE, door_ajar |-> d, reset |-> FALSE,
                  limits |-> FALSE] : d \in BOOLEAN}
    /\ ovr = <<>>
    /\ lin = LinInit
    /\ g = GInit
    /\ settings \in {[st EXCEPT !.safety_door_ignore_when_idle = i,
                                  !.force_initialization_alarm = f] :
                        st \in {q \in Profiles : q.soft_enabled /\ ~q.laser_mode},
                        i \in BOOLEAN, f \in BOOLEAN}
    /\ sys = SysInit("IDLE")
    /\ \E queued \in BOOLEAN :
          plan = IF queued THEN Queued("line")
                 ELSE [blocks |-> <<>>, pos |-> Origin]
    /\ hal = [spindle |-> SpindleOff, coolant |-> FALSE, running |-> FALSE]
    /\ bl = mc_backlash_init(settings, plan.pos)
    /\ budget = [events |-> MaxEntryEvents, calls |-> 0, drains |-> MaxDrains]
    /\ stack = <<Frame("protocol_main_loop", "enter", [cold |-> TRUE])>>

NextEntry ==
    \/ InterruptEntry
    \/ ISR_Stepper
    \/ Realtime
    \/ ML_Enter
    \/ ML_DoorRead
    \/ ML_DoorWrite
    \/ ML_AfterDoor
    \/ ML_NoData
    \/ ML_Checkpoint

SpecEntry == InitEntry /\ [][NextEntry]_vars

\* The entry under every gate: the inputs, the settings and the mode left by
\* the run before decide between ESTOP, ALARM and IDLE.
MaxGateEvents == 1

GateSettings ==
    {[st EXCEPT !.homing_init_lock = h, !.check_at_init = c,
                !.force_initialization_alarm = f] :
        st \in {q \in Profiles : q.soft_enabled /\ ~q.laser_mode},
        h \in BOOLEAN, c \in BOOLEAN, f \in BOOLEAN}

InitGates ==
    /\ ret = TRUE
    /\ rt_state = {}
    /\ rt_alarm = NoAlarm
    /\ pins \in [e_stop : BOOLEAN, door_ajar : BOOLEAN, reset : BOOLEAN,
                  limits : BOOLEAN]
    /\ ovr = <<>>
    /\ lin = LinInit
    /\ g = GInit
    /\ settings \in GateSettings
    /\ \E prior \in {"IDLE", "ALARM", "SLEEP"}, homed \in BOOLEAN :
          sys = [SysInit(prior) EXCEPT !.homed = homed]
    /\ \E queued \in BOOLEAN :
          plan = IF queued THEN Queued("line")
                 ELSE [blocks |-> <<>>, pos |-> Origin]
    /\ hal = [spindle |-> SpindleOff, coolant |-> FALSE, running |-> FALSE]
    /\ bl = mc_backlash_init(settings, plan.pos)
    /\ budget = [events |-> MaxGateEvents, calls |-> 0, drains |-> MaxDrains]
    /\ \E cold \in BOOLEAN :
          stack = <<Frame("protocol_main_loop", "enter", [cold |-> cold])>>

SpecGates == InitGates /\ [][NextEntry]_vars

\* ------------------------------------- the main loop under stop and reset
MaxLoopEvents == 2

LoopCmds == {"CMD_STOP", "CMD_SAFETY_DOOR", "CMD_CYCLE_START"}

InterruptLoop ==
    \/ \E c \in LoopCmds : RT_Flag(c)
    \/ RT_Reset
    \/ RT_Exit
    \/ ISR_HardLimit

InitLoop ==
    /\ InitMainCommon
    /\ settings \in {st \in Profiles : st.soft_enabled /\ ~st.laser_mode}
    /\ sys = SysInit("IDLE")
    /\ \E queued \in BOOLEAN :
          plan = IF queued THEN Queued("line")
                 ELSE [blocks |-> <<>>, pos |-> Origin]
    /\ hal = [spindle |-> SpindleOff, coolant |-> FALSE, running |-> FALSE]
    /\ bl = mc_backlash_init(settings, plan.pos)
    /\ budget = [events |-> MaxLoopEvents, calls |-> MaxLines,
                 drains |-> MaxDrains]

NextLoop ==
    \/ InterruptLoop
    \/ ISR_Stepper
    \/ Realtime
    \/ \E l \in Lines : ML_Eol(l)
    \/ \E accept \in BOOLEAN : ML_Dispatch(accept)
    \/ ML_NoData
    \/ ML_Checkpoint

SpecLoop == InitLoop /\ [][NextLoop]_vars

\* --------------------------------- the drain from every kind of state
MaxDrainEvents == 2
MaxDrainRuns == 2

\* The modes the drain is entered in, with the planner and stepper as that
\* mode has them.
DrainStarts ==
    {[state |-> "IDLE", running |-> FALSE, suspend |-> FALSE, queued |-> "none"],
     [state |-> "CYCLE", running |-> TRUE, suspend |-> FALSE, queued |-> "line"],
     [state |-> "HOLD", running |-> FALSE, suspend |-> TRUE, queued |-> "line"],
     [state |-> "JOG", running |-> TRUE, suspend |-> FALSE, queued |-> "jog"],
     [state |-> "TOOL_CHANGE", running |-> FALSE, suspend |-> FALSE,
      queued |-> "none"],
     [state |-> "ALARM", running |-> FALSE, suspend |-> FALSE,
      queued |-> "none"]}

\* What the parser has left behind: nothing, or spindle and coolant on with a
\* synchronized override control, feed hold disabled and a hold deferred,
\* overrides delayed.
DrainSys(start, busy) ==
    IF busy
    THEN [SysInit(start.state) EXCEPT
            !.suspend = start.suspend,
            !.tool_change = start.state = "TOOL_CHANGE",
            !.sync = TRUE,
            !.feed_hold_disable = TRUE,
            !.feed_hold_pending = start.state = "CYCLE",
            !.delay_overrides = TRUE,
            !.modal = [spindle |-> TRUE, coolant |-> TRUE,
                       feed_hold_disable |-> FALSE, sync |-> FALSE]]
    ELSE [SysInit(start.state) EXCEPT !.suspend = start.suspend]

InitDrain ==
    /\ InitMainCommon
    /\ settings \in {st \in Profiles : st.soft_enabled /\ ~st.laser_mode}
    /\ \E start \in DrainStarts, busy \in BOOLEAN :
          /\ sys = DrainSys(start, busy)
          /\ plan = IF start.queued = "none"
                    THEN [blocks |-> <<>>, pos |-> Origin]
                    ELSE Queued(start.queued)
          /\ hal = [spindle |-> IF busy THEN [on |-> TRUE, ccw |-> FALSE,
                                              rpm |-> 9]
                                ELSE SpindleOff,
                    coolant |-> busy, running |-> start.running]
    /\ bl = mc_backlash_init(settings, plan.pos)
    /\ budget = [events |-> MaxDrainEvents, calls |-> 0,
                 drains |-> MaxDrainRuns]

SpecDrain == InitDrain /\ [][NextRt]_vars

\* ------------------------------------ protocol_enqueue_realtime_command
MaxChars == 2

\* A byte: the code it is, and the range it lies in: below 0x20, printable,
\* 0x7F to 0xBF, or above.
FlagCodes ==
    {"CMD_STOP", "CMD_STATUS_REPORT_ALL", "CMD_STATUS_REPORT", "ENQ",
     "CMD_CYCLE_START", "CMD_FEED_HOLD", "CMD_GCODE_REPORT", "CMD_PID_REPORT"}

FeedCodes ==
    {"FEED_RESET", "FEED_COARSE_PLUS", "FEED_COARSE_MINUS", "FEED_FINE_PLUS",
     "FEED_FINE_MINUS", "RAPID_RESET", "RAPID_MEDIUM", "RAPID_LOW"}

AccessoryCodes ==
    {"SPINDLE_RESET", "SPINDLE_COARSE_PLUS", "SPINDLE_COARSE_MINUS",
     "SPINDLE_FINE_PLUS", "SPINDLE_FINE_MINUS", "SPINDLE_STOP",
     "COOLANT_FLOOD_TOGGLE", "COOLANT_MIST_TOGGLE"}

LegacyCodes ==
    {"CMD_STATUS_REPORT_LEGACY", "CMD_CYCLE_START_LEGACY",
     "CMD_FEED_HOLD_LEGACY"}

ControlCodes ==
    FlagCodes \cup FeedCodes \cup AccessoryCodes \cup
    {"CMD_RESET", "CMD_EXIT", "CMD_SAFETY_DOOR", "CMD_JOG_CANCEL",
     "CMD_OPTIONAL_STOP_TOGGLE"}

Chars ==
    {[code |-> c, range |-> "ext"] :
        c \in ControlCodes \ {"CMD_SAFETY_DOOR", "CMD_OPTIONAL_STOP_TOGGLE"}}
    \cup {[code |-> c, range |-> r] :
            c \in {"CMD_SAFETY_DOOR", "CMD_OPTIONAL_STOP_TOGGLE"},
            r \in {"ctrl", "ext"}}
    \cup {[code |-> c, range |-> "ctrl"] : c \in {"LF", "CR"}}
    \cup {[code |-> c, range |-> "print"] : c \in LegacyCodes}
    \cup {[code |-> "other", range |-> r] :
            r \in {"ctrl", "print", "ext", "top"}}

FlagOfCode(code) ==
    CASE code = "CMD_STOP" -> "STOP"
      [] code \in {"CMD_STATUS_REPORT_ALL", "CMD_STATUS_REPORT", "ENQ",
                   "CMD_STATUS_REPORT_LEGACY"} -> "STATUS_REPORT"
      [] code \in {"CMD_CYCLE_START", "CMD_CYCLE_START_LEGACY"} -> "CYCLE_START"
      [] code \in {"CMD_FEED_HOLD", "CMD_FEED_HOLD_LEGACY"} -> "FEED_HOLD"
      [] code = "CMD_GCODE_REPORT" -> "GCODE_REPORT"
      [] code = "CMD_PID_REPORT" -> "PID_REPORT"

NoEffect ==
    [tool_change |-> FALSE, exit |-> FALSE, reset |-> FALSE, drop |-> FALSE,
     flags |-> {}, feed |-> FALSE, accessory |-> FALSE,
     clear_line |-> FALSE, toggled |-> FALSE]

\* Lines 1375-1483: the first switch.
FirstSwitch(c, s, ps, cap, st) ==
    LET code == c.code
        dropped == [NoEffect EXCEPT !.drop = TRUE]
    IN CASE code \in {"LF", "CR"} -> NoEffect
         [] code = "CMD_STOP" ->
                [dropped EXCEPT !.flags = {"STOP"}, !.clear_line = TRUE]
         [] code = "CMD_RESET" -> [dropped EXCEPT !.reset = ResetAllowed(ps)]
         [] code = "CMD_EXIT" -> [dropped EXCEPT !.reset = TRUE, !.exit = TRUE]
         [] code = "CMD_CYCLE_START" ->
                [dropped EXCEPT !.flags = {"CYCLE_START"}, !.tool_change = TRUE]
         [] code \in FlagCodes -> [dropped EXCEPT !.flags = {FlagOfCode(code)}]
         [] code = "CMD_SAFETY_DOOR" ->
                IF ~cap.safety_door
                THEN [dropped EXCEPT !.flags = {"SAFETY_DOOR"}]
                ELSE NoEffect
         [] code = "CMD_JOG_CANCEL" ->
                [dropped EXCEPT !.clear_line = TRUE,
                                !.flags = IF st.kinematics_api /\ s.state = "JOG"
                                          THEN {"MOTION_CANCEL"} ELSE {}]
         [] code = "CMD_OPTIONAL_STOP_TOGGLE" ->
                [NoEffect EXCEPT !.toggled = ~cap.program_stop]
         [] code \in FeedCodes -> [dropped EXCEPT !.feed = TRUE]
         [] code \in AccessoryCodes -> [dropped EXCEPT !.accessory = TRUE]
         \* c is a plain char: where char is signed every byte above 0x7F
         \* compares below ' '.
         [] OTHER -> [NoEffect EXCEPT !.drop =
                         \/ c.range \in {"ctrl", "ext"}
                         \/ st.char_signed /\ c.range = "top"]

\* Line 1514: what is left is dropped when its top bit is set, unless the
\* line keeps realtime commands.
TopBitDropped(keep, range) == ~(keep \/ range \in {"ctrl", "print"})

\* Lines 1367-1518.
protocol_enqueue_realtime_command(c, s, ps, cap, st, keep) ==
    LET e == FirstSwitch(c, s, ps, cap, st)
    IN IF e.drop THEN e
       ELSE IF c.code \in LegacyCodes
       THEN IF ~keep \/ st.legacy_rt_commands
            THEN [e EXCEPT !.flags = {FlagOfCode(c.code)}, !.drop = TRUE,
                           !.tool_change = c.code = "CMD_CYCLE_START_LEGACY"]
            ELSE e
       ELSE [e EXCEPT !.drop = TopBitDropped(keep, c.range)]

\* The interrupt that hands a received byte to the function.
RT_Char(c) ==
    /\ Event
    /\ LET e == protocol_enqueue_realtime_command(c, sys, pins, hal.driver_cap,
                                                  settings, lin.keep_rt_commands)
           r == mc_reset(sys, rt_state, rt_alarm, hal, pins)
       IN /\ rt_state' = (IF e.reset THEN r.st ELSE rt_state) \cup e.flags
          /\ rt_alarm' = IF e.reset THEN r.al ELSE rt_alarm
          /\ hal' = IF e.reset THEN r.hal ELSE hal
          /\ sys' = [sys EXCEPT !.exit = @ \/ e.exit,
                                !.tool_change = @ /\ ~e.tool_change]
          /\ ovr' = IF e.feed THEN Append(ovr, c.code) ELSE ovr
          /\ lin' = IF e.clear_line THEN [lin EXCEPT !.char_counter = 0]
                    ELSE lin
          /\ g' = [g EXCEPT !.ch =
                     [state |-> sys.state, e_stop |-> pins.e_stop, code |-> c.code,
                      queued |-> Len(ovr'), range |-> c.range,
                      keep |-> lin.keep_rt_commands, effect |-> e]]
    /\ budget' = Spend
    /\ UNCHANGED <<stack, ret, pins, plan, bl, settings>>

InitChars ==
    /\ ret = TRUE
    /\ rt_state = {}
    /\ rt_alarm = NoAlarm
    /\ pins \in {[e_stop |-> e, door_ajar |-> FALSE, reset |-> FALSE,
                  limits |-> FALSE] : e \in BOOLEAN}
    /\ ovr = <<>>
    /\ lin \in {[LinInit EXCEPT !.keep_rt_commands = k, !.char_counter = n] :
                   k \in BOOLEAN, n \in 0..1}
    /\ g = GInit
    /\ \E l \in BOOLEAN, k \in BOOLEAN, sg \in BOOLEAN :
          settings = [kinematics_api |-> k, char_signed |-> sg,
                      legacy_rt_commands |-> l]
                     @@ CHOOSE st \in Profiles : st.soft_enabled /\ ~st.laser_mode
    /\ \E start \in {<<"IDLE", "none">>, <<"JOG", "jog">>} :
          /\ sys = [SysInit(IF pins.e_stop THEN "ESTOP" ELSE start[1])
                       EXCEPT !.tool_change = TRUE]
          /\ plan = IF start[2] = "none" THEN [blocks |-> <<>>, pos |-> Origin]
                    ELSE Queued(start[2])
    /\ \E door \in BOOLEAN, stop \in BOOLEAN :
          hal = [driver_cap |-> [safety_door |-> door, program_stop |-> stop]]
                @@ [spindle |-> SpindleOff, coolant |-> FALSE, running |-> FALSE]
    /\ bl = mc_backlash_init(settings, plan.pos)
    /\ budget = [events |-> MaxChars, calls |-> 0, drains |-> 0]
    /\ stack = <<Frame("protocol_main_loop", "read", NoLocals)>>

NextChars == \E c \in Chars : RT_Char(c)

SpecChars == InitChars /\ [][NextChars]_vars

\* ------------------------------------------- sequences of moves, backlash
MaxMoves == 3
MaxCoord == 2
MaxBacklashEvents == 2

\* Targets on both axes; every axis can advance, stay and reverse.
Moves == {t \in [Axes -> 0..MaxCoord] : t[2] <= 1}

\* Compensation on both axes, or on X alone with X homing in the positive
\* direction.
BacklashSettings ==
    {[st EXCEPT !.backlash = c[1], !.homing_dir_mask = c[2]] :
        st \in {p \in Profiles : ~p.soft_enabled /\ ~p.laser_mode},
        c \in {<<<<2, 1>>, {}>>, <<<<1, 0>>, {1}>>}}

InterruptBacklash ==
    \/ \E c \in {"CMD_STOP", "CMD_FEED_HOLD"} : RT_Flag(c)
    \/ RT_Reset
    \/ ISR_HardLimit
    \/ ISR_Stepper

CallerBacklash ==
    \/ \E t \in Moves : CallLine(PlainLine(t))
    \/ CallerRestart
    \/ CallerClearCancel

InitBacklash ==
    /\ ret = TRUE
    /\ rt_state = {}
    /\ rt_alarm = NoAlarm
    /\ pins = [e_stop |-> FALSE, door_ajar |-> FALSE, reset |-> FALSE,
               limits |-> FALSE]
    /\ plan = [blocks |-> <<>>, pos |-> Origin]
    /\ hal = [spindle |-> SpindleOff, coolant |-> FALSE, running |-> FALSE]
    /\ ovr = <<>>
    /\ settings \in BacklashSettings
    /\ bl = mc_backlash_init(settings, Origin)
    /\ lin = LinInit
    /\ g = GInit
    /\ budget = [events |-> MaxBacklashEvents, calls |-> MaxMoves, drains |-> 0]
    /\ stack = <<Frame("caller", "idle", NoLocals)>>
    /\ sys = SysInit("IDLE")

NextBacklash == InterruptBacklash \/ Realtime \/ Gateway \/ CallerBacklash

SpecBacklash == InitBacklash /\ [][NextBacklash]_vars

\* --------------------------------------------------------- mc_homing_cycle
MaxHomingEvents == 2
MaxHomings == 2

\* What one call of mc_homing_cycle did: the limits_go_home calls it made,
\* whether it switched the hard-limit interrupt off, the status it returned
\* and the interrupt enable and limit inputs at that return.
NoHoming ==
    [status |-> "none", returned |-> FALSE, went |-> 0, disabled |-> FALSE,
     gated |-> FALSE, reset_seen |-> FALSE,
     before |-> [homed |-> {}, enabled |-> TRUE],
     at_return |-> [limits |-> FALSE, enabled |-> TRUE]]

HomingReturns(gh, status, h, p) ==
    [gh EXCEPT !.returned = TRUE, !.status = status,
               !.at_return = [limits |-> p.limits, enabled |-> h.limits_enabled]]

\* Line 540: both ends of travel share one input and that input is active.
two_switches_engaged_Never(st, p) == FALSE

two_switches_engaged(st, p) == st.two_switches /\ p.limits

\* Lines 590-592.
homing_status_AlwaysOK(st, p) == "OK"

homing_status(st, p) ==
    IF st.hard_enabled /\ st.check_at_init /\ p.limits
    THEN "LimitsEngaged" ELSE "OK"

\* Lines 540-546: the two-switch check, then the hard-limit interrupt is
\* switched off for the cycle.
HOME_Entry ==
    /\ At("mc_homing_cycle", "entry")
    /\ IF two_switches_engaged(settings, pins)
       THEN /\ LET r == mc_reset(sys, rt_state, rt_alarm, hal, pins)
               IN /\ rt_state' = r.st
                  /\ hal' = r.hal
                  /\ g' = [g EXCEPT !.home = HomingReturns(
                                       [@ EXCEPT !.gated = TRUE],
                                       "Unhandled", r.hal, pins)]
            /\ rt_alarm' = "HardLimit"
            /\ stack' = Popped(stack)
       ELSE /\ hal' = [hal EXCEPT !.limits_enabled = FALSE]
            /\ g' = [g EXCEPT !.home.disabled = TRUE]
            /\ stack' = Goto(stack, "cycle")
            /\ UNCHANGED <<rt_state, rt_alarm>>
    /\ UNCHANGED <<ret, sys, pins, plan, ovr, bl, lin, settings, budget>>

GoHome(s, v, retpc) ==
    Goto(SetV(s, v), retpc)
       \o <<Frame("limits_go_home", "seek", [cycle |-> v.cycle])>>

\* Lines 551-566: the given axes, or the configured groups in order.
HOME_Cycle ==
    /\ At("mc_homing_cycle", "cycle")
    /\ LET v == Top.v
       IN IF v.cycle # {}
          THEN /\ stack' = GoHome(stack, v, "check")
               /\ UNCHANGED sys
          ELSE /\ sys' = [sys EXCEPT !.homed_mask = {}]
               /\ stack' = Goto(stack, "table")
    /\ UNCHANGED <<ret, rt_state, rt_alarm, pins, plan, hal, ovr, bl, lin, g,
                   settings, budget>>

\* Lines 561-566: one pass of the loop over settings.homing.cycle.
HOME_Table ==
    /\ At("mc_homing_cycle", "table")
    /\ LET v == Top.v
           group == settings.homing_cycle[v.idx]
       IN IF group # {}
          THEN stack' = GoHome(stack, [v EXCEPT !.cycle = group], "went")
          ELSE IF v.idx < N_AXIS
          THEN stack' = SetV(stack, [v EXCEPT !.idx = @ + 1])
          ELSE stack' = Goto(stack, "check")
    /\ UNCHANGED <<ret, sys, rt_state, rt_alarm, pins, plan, hal, ovr, bl, lin,
                   g, settings, budget>>

\* Lines 564-566: a failed group ends the loop.
HOME_Went ==
    /\ At("mc_homing_cycle", "went")
    /\ LET v == Top.v
       IN IF ret /\ v.idx < N_AXIS
          THEN stack' = Goto(SetV(stack, [v EXCEPT !.idx = @ + 1]), "table")
          ELSE stack' = Goto(stack, "check")
    /\ UNCHANGED <<ret, sys, rt_state, rt_alarm, pins, plan, hal, ovr, bl, lin,
                   g, settings, budget>>

\* limits_go_home: the seek runs with nothing but reset able to stop it.
GO_Seek ==
    /\ At("limits_go_home", "seek")
    /\ stack' = Goto(stack, "done")
    /\ g' = [g EXCEPT !.home.went = @ + 1]
    /\ UNCHANGED <<ret, sys, rt_state, rt_alarm, pins, plan, hal, ovr, bl, lin,
                   settings, budget>>

\* limits_go_home: the axes are homed, or the cycle fails with a reset and
\* an alarm. A reset posted during the seek leaves only the failure.
GO_Done ==
    /\ At("limits_go_home", "done")
    /\ \E found \in BOOLEAN :
          /\ found => "RESET" \notin rt_state
          /\ ret' = found
          /\ IF found
             THEN /\ sys' = [sys EXCEPT !.homed_mask = @ \cup Top.v.cycle]
                  /\ plan' = [plan EXCEPT !.pos = Origin]
                  /\ UNCHANGED <<rt_state, rt_alarm, hal>>
             ELSE /\ LET r == mc_reset(sys, rt_state, rt_alarm, hal, pins)
                     IN /\ rt_state' = r.st
                        /\ hal' = r.hal
                        /\ rt_alarm' = IF r.al = NoAlarm THEN "HomingFailApproach"
                                       ELSE r.al
                  /\ UNCHANGED <<sys, plan>>
    /\ stack' = Popped(stack)
    /\ UNCHANGED <<pins, ovr, bl, lin, g, settings, budget>>

\* Lines 568-571: with a cycle run, the realtime drain is consulted.
HOME_Check ==
    /\ At("mc_homing_cycle", "check")
    /\ stack' = IF Top.v.cycle # {} THEN CallRealtime(stack, "checked")
                ELSE Goto(stack, "finish")
    /\ UNCHANGED <<ret, sys, rt_state, rt_alarm, pins, plan, hal, ovr, bl, lin,
                   g, settings, budget>>

\* Lines 571-579: a failed drain returns at once; otherwise parser and
\* planner positions are synchronised.
HOME_Checked ==
    /\ At("mc_homing_cycle", "checked")
    /\ IF ~ret
       THEN /\ stack' = Popped(stack)
            /\ g' = [g EXCEPT !.home = HomingReturns(
                                 [@ EXCEPT !.reset_seen = TRUE],
                                 "Unhandled", hal, pins)]
       ELSE /\ stack' = Goto(stack, "finish")
            /\ UNCHANGED g
    /\ UNCHANGED <<ret, sys, rt_state, rt_alarm, pins, plan, hal, ovr, bl, lin,
                   settings, budget>>

\* Lines 583-592: the report flag, the hard-limit interrupt as configured,
\* and the status.
HOME_Finish ==
    /\ At("mc_homing_cycle", "finish")
    /\ sys' = [sys EXCEPT !.report_homed = TRUE]
    /\ hal' = [hal EXCEPT !.limits_enabled = settings.hard_enabled]
    /\ g' = [g EXCEPT !.home = HomingReturns(@, homing_status(settings, pins),
                                            hal', pins)]
    /\ stack' = Popped(stack)
    /\ UNCHANGED <<ret, rt_state, rt_alarm, pins, plan, ovr, bl, lin, settings,
                   budget>>

Homing ==
    \/ HOME_Entry
    \/ HOME_Cycle
    \/ HOME_Table
    \/ HOME_Went
    \/ GO_Seek
    \/ GO_Done
    \/ HOME_Check
    \/ HOME_Checked
    \/ HOME_Finish

\* $H, or $H with an axis letter: the machine is idle or locked in alarm,
\* the mode becomes HOMING and the cycle is called.
HomingMasks == {{}, {1}}

CallHoming(cycle) ==
    /\ At("caller", "idle")
    /\ ~Aborted(sys)
    /\ sys.state \in {"IDLE", "ALARM"}
    /\ budget.calls > 0
    /\ sys' = set_state(sys, "HOMING")
    /\ stack' = Goto(stack, "homed")
                  \o <<Frame("mc_homing_cycle", "entry",
                             [idx |-> 1, cycle |-> cycle])>>
    /\ g' = [g EXCEPT !.home = [NoHoming EXCEPT
                 !.before = [homed |-> sys.homed_mask,
                             enabled |-> hal.limits_enabled]]]
    /\ budget' = [budget EXCEPT !.calls = @ - 1]
    /\ UNCHANGED <<ret, rt_state, rt_alarm, pins, plan, hal, ovr, bl, lin,
                   settings>>

\* Back from the cycle: IDLE after a cycle that ran to its end.
CallerHomed ==
    /\ At("caller", "homed")
    /\ sys' = IF g.home.status = "OK" /\ sys.state = "HOMING" /\ ~Aborted(sys)
              THEN set_state(sys, "IDLE") ELSE sys
    /\ stack' = Goto(stack, "idle")
    /\ UNCHANGED <<ret, rt_state, rt_alarm, pins, plan, hal, ovr, bl, lin, g,
                   settings, budget>>

\* A limit input changes; with the hard-limit interrupt enabled an asserted
\* input resets the system and posts the hard-limit alarm.
ISR_LimitPin ==
    /\ Event
    /\ pins' = [pins EXCEPT !.limits = ~@]
    /\ IF pins'.limits /\ hal.limits_enabled
       THEN /\ LET r == mc_reset(sys, rt_state, rt_alarm, hal, pins)
               IN rt_state' = r.st /\ hal' = r.hal
            /\ rt_alarm' = "HardLimit"
       ELSE UNCHANGED <<rt_state, rt_alarm, hal>>
    /\ budget' = Spend
    /\ UNCHANGED <<stack, ret, sys, plan, ovr, bl, lin, g, settings>>

HomingSettings ==
    {[two_switches |-> ts, homing_cycle |-> hc] @@
     [st EXCEPT !.hard_enabled = he, !.check_at_init = ci] :
        ts \in BOOLEAN, he \in BOOLEAN, ci \in BOOLEAN,
        hc \in {<<{2}, {1}>>, <<{}, {1}>>, <<{}, {}>>},
        st \in {q \in Profiles : q.soft_enabled /\ ~q.laser_mode}}

InitHoming ==
    /\ ret = TRUE
    /\ rt_state = {}
    /\ rt_alarm = NoAlarm
    /\ pins \in {[e_stop |-> FALSE, door_ajar |-> FALSE, reset |-> FALSE,
                  limits |-> l] : l \in BOOLEAN}
    /\ plan = [blocks |-> <<>>, pos |-> Origin]
    /\ settings \in HomingSettings
    /\ hal = [limits_enabled |-> settings.hard_enabled]
             @@ [spindle |-> SpindleOff, coolant |-> FALSE, running |-> FALSE]
    /\ ovr = <<>>
    /\ bl = mc_backlash_init(settings, Origin)
    /\ lin = LinInit
    /\ g = [home |-> NoHoming] @@ GInit
    /\ sys = [homed_mask |-> {}, report_homed |-> FALSE] @@ SysInit("IDLE")
    /\ budget = [events |-> MaxHomingEvents, calls |-> MaxHomings, drains |-> 0]
    /\ stack = <<Frame("caller", "idle", NoLocals)>>

\* No flag posted here suspends a machine that is homing or in alarm, so the
\* drain of line 571 never enters the suspend loop.
NextHoming ==
    \/ RT_Reset
    \/ ISR_LimitPin
    \/ ERS_Alarm
    \/ ERS_Critical
    \/ ERS_Drain
    \/ PER_AfterSystem
    \/ Homing
    \/ \E cycle \in HomingMasks : CallHoming(cycle)
    \/ CallerHomed
    \/ CallerRestart
    \/ CallerUnlock

SpecHoming == InitHoming /\ [][NextHoming]_vars

\* ---------------------------------------------------------- mc_probe_cycle
MaxProbeEvents == 2
MaxProbes == 2

\* What one call of mc_probe_cycle did: the alarms it posted, whether it
\* armed the monitor and asked for a cycle start, whether the monitor fired,
\* the buffers it reset, and what it returned over which planner.
NoProbe ==
    [status |-> "none", waited |-> FALSE, returned |-> FALSE, at_return |-> [blocks |-> 0, pos |-> Origin, position |-> Origin],
     posted |-> {}, armed |-> FALSE, started |-> FALSE, hit |-> FALSE,
     no_error |-> FALSE, snapshot |-> FALSE,
     flush |-> <<>>]

ProbeReturns(gp, status, p, s) ==
    [gp EXCEPT !.returned = TRUE, !.status = status,
               !.at_return = [blocks |-> Len(p.blocks), pos |-> p.pos,
                              position |-> s.position]]

\* hal.probe_get_state under the invert mask of the cycle.
probe_get_state_Never(h, p) == FALSE

probe_get_state(h, p) == p.probe # h.probe_invert

\* Line 661.
probe_result_Found(s) == "Found"

probe_result(s) == IF s.probe_succeeded THEN "Found" ELSE "FailEnd"

\* plan_reset and plan_sync_position: the buffer is emptied and the planner
\* position zeroed, then the planner position is set from the machine
\* position.
plan_reset(p) == [blocks |-> <<>>, pos |-> Origin]

plan_sync_position(p, s) == [p EXCEPT !.pos = s.position]

probe_flush_SyncFirst(p, s) == plan_reset(plan_sync_position(p, s))

\* Lines 652-654.
probe_flush(p, s) == plan_sync_position(plan_reset(p), s)

\* Line 601.
probe_check_mode_Never(s) == FALSE

probe_check_mode(s) == s.state = "CHECK_MODE"

\* Lines 601-605: nothing happens in check mode; else the planner is drained.
PROBE_Entry ==
    /\ At("mc_probe_cycle", "entry")
    /\ IF probe_check_mode(sys)
       THEN /\ stack' = Popped(stack)
            /\ g' = [g EXCEPT !.probe = ProbeReturns(@, "CheckMode", plan, sys)]
       ELSE /\ stack' = Goto(stack, "synced") \o
                        <<Frame("protocol_buffer_synchronize", "entry", NoLocals)>>
            /\ UNCHANGED g
    /\ UNCHANGED <<ret, sys, rt_state, rt_alarm, pins, plan, hal, ovr, bl, lin,
                   settings, budget>>

\* Lines 607-618: abort test, probe history cleared, invert mask set, and the
\* probe input read; an input already triggered posts ProbeFailInitial.
PROBE_Synced ==
    /\ At("mc_probe_cycle", "synced")
    /\ IF sys.abort
       THEN /\ stack' = Popped(stack)
            /\ g' = [g EXCEPT !.probe = ProbeReturns(@, "Abort", plan, sys)]
            /\ UNCHANGED <<sys, hal, rt_alarm>>
       ELSE /\ sys' = [sys EXCEPT !.probe_succeeded = FALSE]
            /\ hal' = [hal EXCEPT !.probe_invert = Top.v.away]
            /\ IF probe_get_state(hal', pins)
               THEN /\ rt_alarm' = "ProbeFailInitial"
                    /\ g' = [g EXCEPT !.probe.posted = @ \cup {"ProbeFailInitial"}]
                    /\ stack' = CallRealtime(stack, "fail_init")
               ELSE /\ stack' = Goto(stack, "line")
                    /\ UNCHANGED <<rt_alarm, g>>
    /\ UNCHANGED <<ret, rt_state, pins, plan, ovr, bl, lin, settings, budget>>

\* Lines 619-620.
PROBE_FailInit ==
    /\ At("mc_probe_cycle", "fail_init")
    /\ hal' = [hal EXCEPT !.probe_invert = FALSE]
    /\ stack' = Popped(stack)
    /\ g' = [g EXCEPT !.probe = ProbeReturns(@, "FailInit", plan, sys)]
    /\ UNCHANGED <<ret, sys, rt_state, rt_alarm, pins, plan, ovr, bl, lin,
                   settings, budget>>

\* Line 624: the probing motion goes through mc_line.
PROBE_Line ==
    /\ At("mc_probe_cycle", "line")
    /\ stack' = Goto(stack, "arm") \o
                <<Frame("mc_line", "entry", [req |-> PlainLine(Top.v.target)])>>
    /\ g' = [g EXCEPT !.call = NewCall(PlainLine(Top.v.target), sys, settings)]
    /\ UNCHANGED <<ret, sys, rt_state, rt_alarm, pins, plan, hal, ovr, bl, lin,
                   settings, budget>>

\* Lines 627-632: the monitor is armed, a cycle start is requested and the
\* wait begins.
PROBE_Arm ==
    /\ At("mc_probe_cycle", "arm")
    /\ sys' = [sys EXCEPT !.probe_state = "Active"]
    /\ rt_state' = rt_state \cup {"CYCLE_START"}
    /\ g' = [g EXCEPT !.probe.armed = TRUE, !.probe.started = TRUE]
    /\ stack' = CallRealtime(stack, "waited")
    /\ UNCHANGED <<ret, rt_alarm, pins, plan, hal, ovr, bl, lin, settings,
                   budget>>

\* Lines 632-634: the wait ends on a failed drain or in IDLE.
PROBE_Waited ==
    /\ At("mc_probe_cycle", "waited")
    /\ IF ~ret
       THEN /\ stack' = Popped(stack)
            /\ g' = [g EXCEPT !.probe = ProbeReturns(@, "Abort", plan, sys)]
       ELSE IF sys.state # "IDLE"
       THEN /\ stack' = CallRealtime(stack, "waited")
            /\ UNCHANGED g
       ELSE /\ stack' = Goto(stack, "post")
            /\ g' = [g EXCEPT !.probe.waited = TRUE]
    /\ UNCHANGED <<ret, sys, rt_state, rt_alarm, pins, plan, hal, ovr, bl, lin,
                   settings, budget>>

\* Lines 639-649: a monitor still armed means no contact.
PROBE_Post ==
    /\ At("mc_probe_cycle", "post")
    /\ LET active == sys.probe_state = "Active"
           no_error == Top.v.no_error
           alarm == active /\ ~no_error
       IN /\ sys' = [sys EXCEPT
                       !.probe_position = IF active /\ no_error
                                          THEN sys.position ELSE @,
                       !.probe_succeeded = IF active THEN @ ELSE TRUE,
                       !.probe_state = "Off"]
          /\ rt_alarm' = IF alarm THEN "ProbeFailContact" ELSE rt_alarm
          /\ g' = [g EXCEPT !.probe.posted =
                               IF alarm THEN @ \cup {"ProbeFailContact"} ELSE @,
                            !.probe.snapshot = active /\ no_error,
                            !.probe.no_error = no_error]
    /\ hal' = [hal EXCEPT !.probe_invert = FALSE]
    /\ stack' = CallRealtime(stack, "flush")
    /\ UNCHANGED <<ret, rt_state, pins, plan, ovr, bl, lin, settings, budget>>

\* Lines 652-661: stepper and planner buffers are reset, the planner position
\* is taken from the machine position, and the result is returned.
PROBE_Flush ==
    /\ At("mc_probe_cycle", "flush")
    /\ hal' = [hal EXCEPT !.running = FALSE]
    /\ plan' = probe_flush(plan, sys)
    /\ stack' = Popped(stack)
    /\ g' = [g EXCEPT !.probe =
               ProbeReturns([@ EXCEPT !.flush = <<"st_reset", "plan_reset",
                                                  "plan_sync_position">>],
                            probe_result(sys), plan', sys)]
    /\ UNCHANGED <<ret, sys, rt_state, rt_alarm, pins, ovr, bl, lin, settings,
                   budget>>

Probing ==
    \/ PROBE_Entry
    \/ PROBE_Synced
    \/ PROBE_FailInit
    \/ PROBE_Line
    \/ PROBE_Arm
    \/ PROBE_Waited
    \/ PROBE_Post
    \/ PROBE_Flush

\* The stepper while a probe cycle may be running: it finishes the head
\* block, or the armed monitor sees the probe input and stops the motion
\* where it is, at the start or at the end of the block.
ISR_ProbeStepper ==
    /\ hal.running
    /\ Len(plan.blocks) > 0
    /\ \E hit \in BOOLEAN :
          /\ hit => sys.probe_state = "Active"
          /\ ~hit => ~(sys.probe_state = "Active" /\ probe_get_state(hal, pins))
          /\ IF hit
             THEN /\ \E stop \in {sys.position, Head(plan.blocks).target} :
                        sys' = [sys EXCEPT !.probe_state = "Off",
                                           !.position = stop,
                                           !.probe_position = stop]
                  /\ pins' = [pins EXCEPT !.probe = ~hal.probe_invert]
                  /\ rt_state' = rt_state \cup {"CYCLE_COMPLETE"}
                  /\ hal' = [hal EXCEPT !.running = FALSE]
                  /\ g' = [g EXCEPT !.probe.hit = TRUE]
                  /\ UNCHANGED plan
             ELSE /\ sys' = [sys EXCEPT !.position = Head(plan.blocks).target]
                  /\ plan' = [plan EXCEPT !.blocks = Tail(@)]
                  /\ rt_state' = IF Len(plan.blocks) = 1
                                 THEN rt_state \cup {"CYCLE_COMPLETE"}
                                 ELSE rt_state
                  /\ hal' = [hal EXCEPT !.running = Len(plan.blocks) > 1]
                  /\ UNCHANGED <<pins, g>>
    /\ UNCHANGED <<stack, ret, rt_alarm, ovr, bl, lin, settings, budget>>

\* The probe input changes while nothing watches it.
ISR_ProbePin ==
    /\ Event
    /\ ~(hal.running /\ sys.probe_state = "Active")
    /\ pins' = [pins EXCEPT !.probe = ~@]
    /\ budget' = Spend
    /\ UNCHANGED <<stack, ret, sys, rt_state, rt_alarm, plan, hal, ovr, bl, lin,
                   g, settings>>

\* G38.x: towards or away from the workpiece, with or without error.
Probes ==
    [target : {Pt(1, 0), Pt(2, 0)}, no_error : BOOLEAN, away : BOOLEAN]

CallProbe(pr) ==
    /\ At("caller", "idle")
    /\ CanDispatch(sys)
    /\ budget.calls > 0
    /\ stack' = stack \o <<Frame("mc_probe_cycle", "entry", pr)>>
    /\ g' = [g EXCEPT !.probe = NoProbe, !.bk = NoMoves(plan.pos)]
    /\ budget' = [budget EXCEPT !.calls = @ - 1]
    /\ UNCHANGED <<ret, sys, rt_state, rt_alarm, pins, plan, hal, ovr, bl, lin,
                   settings>>

InitProbe ==
    /\ ret = TRUE
    /\ rt_state = {}
    /\ rt_alarm = NoAlarm
    /\ pins \in {[e_stop |-> FALSE, door_ajar |-> FALSE, reset |-> FALSE,
                  limits |-> FALSE, probe |-> p] : p \in BOOLEAN}
    /\ \E queued \in BOOLEAN :
          plan = IF queued THEN Queued("line")
                 ELSE [blocks |-> <<>>, pos |-> Origin]
    /\ settings \in {st \in Profiles : ~st.laser_mode
                                       /\ backlash_enabled(st) = {}}
    /\ hal = [probe_invert |-> FALSE]
             @@ [spindle |-> SpindleOff, coolant |-> FALSE, running |-> FALSE]
    /\ ovr = <<>>
    /\ bl = mc_backlash_init(settings, plan.pos)
    /\ lin = LinInit
    /\ g = [probe |-> NoProbe] @@ GInit
    /\ \E st \in {"IDLE", "CHECK_MODE"} :
          sys = [position |-> Origin, probe_succeeded |-> FALSE,
                 probe_state |-> "Off", probe_position |-> Origin] @@ SysInit(st)
    /\ budget = [events |-> MaxProbeEvents, calls |-> MaxProbes, drains |-> 0]
    /\ stack = <<Frame("caller", "idle", NoLocals)>>

\* The planner is drained before the probe line is submitted and no feed
\* hold or door is posted here, so the gateway never waits for room and the
\* drains never suspend.
NextProbe ==
    \/ RT_Reset
    \/ ISR_ProbePin
    \/ ISR_ProbeStepper
    \/ ERS_Alarm
    \/ ERS_Critical
    \/ ERS_Drain
    \/ PER_AfterSystem
    \/ SYNC_Entry
    \/ SYNC_Checked
    \/ MCL_Entry
    \/ MCL_Checked
    \/ MCL_Wait
    \/ Probing
    \/ \E pr \in Probes : CallProbe(pr)
    \/ CallerRestart
    \/ CallerUnlock

SpecProbe == InitProbe /\ [][NextProbe]_vars

\* ---------------------------------------------------------- mc_jog_execute
MaxJogEvents == 2
MaxJogs == 2

\* What one call of mc_jog_execute did.
NoJog == [status |-> "none", returned |-> FALSE, started |-> FALSE]

\* system_apply_jog_limits: the target is brought back into the travel.
system_apply_jog_limits(target) == [i \in Axes |-> Min(target[i], TravelMax)]

\* Line 509: the jog is refused, not clamped.
jog_refused(st, target) ==
    ~st.jog_soft_limited /\ st.soft_enabled /\ ~InTravel(target)

\* Line 514.
jog_starts_WithAnyBlock(s, hasBlock) == hasBlock

jog_starts(s, hasBlock) == s.state \in {"IDLE", "TOOL_CHANGE"} /\ hasBlock

JogLine(target) == [PlainLine(target) EXCEPT !.jog = TRUE]

\* Lines 503-513: the travel check, then the jog goes through mc_line.
JOG_Entry ==
    /\ At("mc_jog_execute", "entry")
    /\ LET xyz == IF settings.jog_soft_limited
                  THEN system_apply_jog_limits(Top.v.target)
                  ELSE Top.v.target
       IN IF jog_refused(settings, Top.v.target)
          THEN /\ stack' = Popped(stack)
               /\ g' = [g EXCEPT !.jog.returned = TRUE,
                                 !.jog.status = "TravelExceeded"]
          ELSE /\ stack' = Goto(stack, "after_line") \o
                           <<Frame("mc_line", "entry", [req |-> JogLine(xyz)])>>
               /\ g' = [g EXCEPT !.call = NewCall(JogLine(xyz), sys, settings)]
    /\ UNCHANGED <<ret, sys, rt_state, rt_alarm, pins, plan, hal, ovr, bl, lin,
                   settings, budget>>

\* Lines 514-520: with a block to run in IDLE or TOOL_CHANGE the mode becomes
\* JOG and the stepper is started by hand.
JOG_AfterLine ==
    /\ At("mc_jog_execute", "after_line")
    /\ LET go == jog_starts(sys, plan_get_current_block)
       IN /\ sys' = IF go THEN set_state(sys, "JOG") ELSE sys
          /\ hal' = IF go THEN [hal EXCEPT !.running = TRUE] ELSE hal
          /\ g' = [g EXCEPT !.jog = [status |-> "OK", returned |-> TRUE,
                                     started |-> go]]
    /\ stack' = Popped(stack)
    /\ UNCHANGED <<ret, rt_state, rt_alarm, pins, plan, ovr, bl, lin, settings,
                   budget>>

\* $J=: jog targets inside and outside the travel.
JogTargets == {Pt(0, 0), Pt(1, 0), Pt(TravelMax + 1, 0)}

CallJog(target) ==
    /\ At("caller", "idle")
    /\ CanDispatch(sys)
    /\ budget.calls > 0
    /\ stack' = stack \o <<Frame("mc_jog_execute", "entry", [target |-> target])>>
    /\ g' = [g EXCEPT !.jog = NoJog, !.bk = NoMoves(plan.pos)]
    /\ budget' = [budget EXCEPT !.calls = @ - 1]
    /\ UNCHANGED <<ret, sys, rt_state, rt_alarm, pins, plan, hal, ovr, bl, lin,
                   settings>>

JogCmds == {"CMD_CYCLE_START", "CMD_FEED_HOLD"}

InitJog ==
    /\ ret = TRUE
    /\ rt_state = {}
    /\ rt_alarm = NoAlarm
    /\ pins = [e_stop |-> FALSE, door_ajar |-> FALSE, reset |-> FALSE,
               limits |-> FALSE]
    /\ \E queued \in BOOLEAN :
          plan = IF queued THEN Queued("line")
                 ELSE [blocks |-> <<>>, pos |-> Origin]
    /\ settings \in {[jog_soft_limited |-> jl] @@ [st EXCEPT !.soft_enabled = se] :
                        jl \in BOOLEAN, se \in BOOLEAN,
                        st \in {q \in Profiles : ~q.laser_mode
                                                 /\ backlash_enabled(q) = {}}}
    /\ hal = [spindle |-> SpindleOff, coolant |-> FALSE, running |-> FALSE]
    /\ ovr = <<>>
    /\ bl = mc_backlash_init(settings, plan.pos)
    /\ lin = LinInit
    /\ g = [jog |-> NoJog] @@ GInit
    /\ sys \in {SysInit(st) : st \in {"IDLE", "TOOL_CHANGE", "CHECK_MODE"}}
    /\ budget = [events |-> MaxJogEvents, calls |-> MaxJogs, drains |-> 0]
    /\ stack = <<Frame("caller", "idle", NoLocals)>>

\* A jog is not checked against the soft limits by mc_line, so no critical
\* alarm is posted here.
NextJog ==
    \/ \E c \in JogCmds : RT_Flag(c)
    \/ RT_Reset
    \/ ISR_Stepper
    \/ ERS_Alarm
    \/ ERS_Drain
    \/ PER_AfterSystem
    \/ PER_AfterSuspend
    \/ SUSP_Loop
    \/ MCL_Entry
    \/ MCL_Checked
    \/ MCL_Wait
    \/ MCL_WaitChecked
    \/ JOG_Entry
    \/ JOG_AfterLine
    \/ \E target \in JogTargets : CallJog(target)
    \/ CallerRestart

SpecJog == InitJog /\ [][NextJog]_vars

\* ------------------------------------------- the gateway in a running cycle
\* mc_line called while a cycle runs from a planner that holds a block, as a
\* canned cycle calls it between its lines: feed hold disabled by the
\* override control or not, with a hold deferred or none.
MaxHoldEvents == 2
MaxHoldCalls == 1

InitHold ==
    /\ ret = TRUE
    /\ rt_state = {}
    /\ rt_alarm = NoAlarm
    /\ pins = [e_stop |-> FALSE, door_ajar |-> FALSE, reset |-> FALSE,
               limits |-> FALSE]
    /\ plan = Queued("line")
    /\ hal = [spindle |-> SpindleOff, coolant |-> FALSE, running |-> TRUE]
    /\ ovr = <<>>
    /\ settings \in {st \in Profiles : ~st.laser_mode}
    /\ bl = mc_backlash_init(settings, plan.pos)
    /\ lin = LinInit
    /\ g = GInit
    /\ budget = [events |-> MaxHoldEvents, calls |-> MaxHoldCalls, drains |-> 0]
    /\ stack = <<Frame("caller", "idle", NoLocals)>>
    /\ \E pending \in BOOLEAN, disabled \in BOOLEAN :
          sys = [SysInit("CYCLE") EXCEPT !.feed_hold_pending = pending,
                                        !.feed_hold_disable = disabled]

SpecHold == InitHold /\ [][Next]_vars

\* ------------------------------------------------ the line reader, by byte
\* The main loop's filter of the input stream, lines 863-984, one byte at a
\* time: comments, the (MSG, buffer, the line buffer and its overflow flag.
LINE_BUFFER_SIZE == 3
MaxReaderLines == 1

\* Line 782: the prefix that turns a comment into a message.
msg == <<"(", "M", "S", "G", ",">>

\* The bytes read: printable ones, a space and a control character.
ReaderChars == {"(", ")", "M", "m", "S", "G", ",", "x", "$", "[", ";", " ", "TAB"}

EolChars == {"LF", "CR"}

CAPS(c) == CASE c = "m" -> "M" [] c = "x" -> "X" [] OTHER -> c

\* uint_fast8_t is at least eight bits wide: on a platform where it is exactly
\* that the index wraps before it reaches the size of the buffer, elsewhere
\* it does not.
Fast8Ranges == {LINE_BUFFER_SIZE - 1, 2 * LINE_BUFFER_SIZE}

NoReader == [msg_top |-> -1, offered |-> 0]

LineFlagged(l) == l.overflow \/ l.comment_parentheses \/ l.comment_semicolon

\* Lines 923-938: a byte that is thrown away, or that belongs to a comment.
ReadDropped(l, c, range) ==
    IF c # "TAB" /\ l.comment_parentheses
    THEN LET um == l.user_message
             write == um.tracker = 5
             tracker == CASE um.tracker = 5 -> 5
                          [] um.tracker > 0 /\ CAPS(c) = msg[um.tracker + 1]
                               -> um.tracker + 1
                          [] OTHER -> 0
         IN [lin |-> [l EXCEPT
                      !.user_message.idx = IF write THEN (@ + 1) % range ELSE @,
                      !.user_message.tracker = tracker,
                      !.user_message.show = IF c = ")" THEN @ \/ tracker = 5
                                            ELSE @,
                      !.comment_parentheses = c # ")",
                      !.keep_rt_commands = IF c = ")" THEN FALSE ELSE @],
             wrote |-> IF write THEN um.idx ELSE -1]
    ELSE [lin |-> l, wrote |-> -1]

\* Lines 940-979: the switch on a byte that may be kept.
ReadSwitch(l, c, show_message, alloc) ==
    CASE c = "$" /\ l.char_counter = 0
           -> [l EXCEPT !.nocaps = TRUE, !.keep_rt_commands = TRUE]
      [] c = "(" /\ ~l.keep_rt_commands /\ ~l.comment_semicolon
           -> LET message == l.user_message.message \/ alloc
              IN [l EXCEPT !.comment_parentheses = TRUE,
                           !.keep_rt_commands = TRUE,
                           !.user_message =
                               IF ~show_message THEN @
                               ELSE IF message
                               THEN [@ EXCEPT !.message = TRUE, !.idx = 0,
                                              !.tracker = 1]
                               ELSE @]
      [] c = ";" /\ ~l.keep_rt_commands /\ ~l.comment_parentheses
           -> [l EXCEPT !.comment_semicolon = TRUE, !.keep_rt_commands = TRUE]
      [] OTHER -> l

LineKind(c) == CASE c = "$" -> "system" [] c = "[" -> "user" [] OTHER -> "gcode"

\* Lines 981-982: the byte is stored unless the line is flagged or full.
ReadStore(l, c) ==
    IF LineFlagged(l) THEN l
    ELSE IF l.char_counter >= LINE_BUFFER_SIZE - 1
    THEN [l EXCEPT !.overflow = TRUE]
    ELSE [l EXCEPT !.char_counter = @ + 1,
                   !.line = IF l.char_counter = 0
                            THEN LineKind(IF l.nocaps THEN c ELSE CAPS(c))
                            ELSE @]

\* Lines 923-983: one byte that is neither CAN nor an end of line.
ML_Char(c, alloc) ==
    /\ AtMain("read")
    /\ IF c = "TAB" \/ (c = " " /\ ~lin.nocaps) \/ LineFlagged(lin)
       THEN LET r == ReadDropped(lin, c, hal.fast8_range)
            IN /\ lin' = r.lin
               /\ g' = [g EXCEPT !.rd.msg_top =
                                     IF r.wrote > @ THEN r.wrote ELSE @]
       ELSE /\ lin' = ReadStore(ReadSwitch(lin, c, hal.show_message, alloc), c)
            /\ g' = [g EXCEPT !.rd.offered =
                        IF LineFlagged(ReadSwitch(lin, c, hal.show_message, alloc))
                           \/ @ > LINE_BUFFER_SIZE
                        THEN @ ELSE @ + 1]
    /\ UNCHANGED <<stack, ret, sys, rt_state, rt_alarm, pins, plan, hal, ovr,
                   bl, settings, budget>>

\* Lines 865-873: CAN drops the line read so far and the error latch.
ML_Can ==
    /\ AtMain("read")
    /\ lin' = [lin EXCEPT !.eol = "none", !.xcommand = "none",
                          !.keep_rt_commands = FALSE, !.nocaps = FALSE,
                          !.gcode_error = FALSE, !.user_message.show = FALSE,
                          !.char_counter = 0, !.overflow = FALSE,
                          !.comment_parentheses = FALSE,
                          !.comment_semicolon = FALSE, !.line = "empty",
                          !.last_error = "OK"]
    /\ rt_state' = IF sys.state = "JOG" THEN rt_state \cup {"MOTION_CANCEL"}
                   ELSE rt_state
    /\ g' = [g EXCEPT !.rd.offered = 0]
    /\ UNCHANGED <<stack, ret, sys, rt_alarm, pins, plan, hal, ovr, bl,
                   settings, budget>>

\* Lines 875-886: an end of line byte; the second byte of a CR LF pair is
\* swallowed, any other one ends the line at the realtime checkpoint.
ML_ReadEol(c) ==
    /\ AtMain("read")
    /\ budget.calls > 0
    /\ IF lin.char_counter = 0 /\ lin.eol # "none" /\ lin.eol # c
       THEN /\ lin' = [lin EXCEPT !.eol = "none"]
            /\ UNCHANGED <<stack, g, budget>>
       ELSE /\ lin' = [lin EXCEPT !.eol = c,
                                  !.line = IF lin.char_counter = 0
                                           THEN "empty" ELSE @]
            /\ stack' = CallRealtime(stack, "eol")
            /\ g' = [g EXCEPT !.eol = rt_state, !.rd.offered = 0]
            /\ budget' = [budget EXCEPT !.calls = @ - 1]
    /\ UNCHANGED <<ret, sys, rt_state, rt_alarm, pins, plan, hal, ovr, bl,
                   settings>>

ReaderProfile ==
    CHOOSE st \in Profiles : st.soft_enabled /\ ~st.laser_mode

InitReader ==
    /\ ret = TRUE
    /\ rt_state = {}
    /\ rt_alarm = NoAlarm
    /\ pins = [e_stop |-> FALSE, door_ajar |-> FALSE, reset |-> FALSE,
               limits |-> FALSE]
    /\ ovr = <<>>
    /\ lin = LinInit
    /\ g = GInit @@ [rd |-> NoReader]
    /\ stack = <<Frame("protocol_main_loop", "read", NoLocals)>>
    /\ settings \in {[ReaderProfile EXCEPT !.user_command_execute = u] :
                        u \in BOOLEAN}
    /\ sys = SysInit("IDLE")
    /\ plan = [blocks |-> <<>>, pos |-> Origin]
    /\ \E show \in BOOLEAN, range \in Fast8Ranges :
          hal = [spindle |-> SpindleOff, coolant |-> FALSE, running |-> FALSE]
                @@ [show_message |-> show, fast8_range |-> range]
    /\ bl = mc_backlash_init(settings, plan.pos)
    /\ budget = [events |-> 0, calls |-> MaxReaderLines,
                 drains |-> 0]

NextReader ==
    \/ ERS_Alarm
    \/ ERS_Drain
    \/ PER_AfterSystem
    \/ \E c \in ReaderChars, alloc \in BOOLEAN : ML_Char(c, alloc)
    \/ \E c \in EolChars : ML_ReadEol(c)
    \/ ML_Can
    \/ \E accept \in BOOLEAN : ML_Dispatch(accept)

SpecReader == InitReader /\ [][NextReader]_vars

\* --------------------------------------------------- the g-code error latch
\* The main loop reading whole lines and CAN bytes from the stream, from idle
\* or from the alarm lock, with nothing else going on: which lines reach the
\* parser and what each one is answered.
MaxLatchLines == 3

InitLatch ==
    /\ ret = TRUE
    /\ rt_state = {}
    /\ rt_alarm = NoAlarm
    /\ pins = [e_stop |-> FALSE, door_ajar |-> FALSE, reset |-> FALSE,
               limits |-> FALSE]
    /\ ovr = <<>>
    /\ lin = LinInit
    /\ g = GInit @@ [rd |-> NoReader]
    /\ stack = <<Frame("protocol_main_loop", "read", NoLocals)>>
    /\ settings \in {[ReaderProfile EXCEPT !.user_command_execute = u] :
                        u \in BOOLEAN}
    /\ sys \in {SysInit("IDLE"), SysInit("ALARM")}
    /\ plan = [blocks |-> <<>>, pos |-> Origin]
    /\ hal = [spindle |-> SpindleOff, coolant |-> FALSE, running |-> FALSE]
    /\ bl = mc_backlash_init(settings, plan.pos)
    /\ budget = [events |-> 0, calls |-> MaxLatchLines, drains |-> 0]

NextLatch ==
    \/ ERS_Alarm
    \/ ERS_Drain
    \/ PER_AfterSystem
    \/ \E l \in Lines : ML_Eol(l)
    \/ ML_Can
    \/ \E accept \in BOOLEAN : ML_Dispatch(accept)

SpecLatch == InitLatch /\ [][NextLatch]_vars

\* ================================================================ claims
LastCall == g.call
Finished == LastCall.done
Laser(c) == settings.laser_mode /\ c.req.spindle.on /\ ~c.req.spindle.ccw

\* C1: a gateway call outside check mode that returns true offered its target
\* to the planner exactly once, and called the spindle HAL (once, with the
\* request's state and rpm) exactly when that push was rejected in laser mode
\* with the spindle on and not counter-clockwise.
C1_OneOfferAndSpindleSync ==
    (Finished /\ ~LastCall.check_mode /\ LastCall.ret) =>
        /\ LastCall.offers = 1
        /\ IF LastCall.rejected /\ Laser(LastCall)
           THEN /\ LastCall.spindle_calls = 1
                /\ LastCall.spindle_arg =
                     [on |-> LastCall.req.spindle.on,
                      ccw |-> LastCall.req.spindle.ccw, rpm |-> LastCall.req.rpm]
                /\ hal.spindle.rpm \in {LastCall.req.rpm, 0}
           ELSE LastCall.spindle_calls = 0

C1_Witness ==
    /\ Finished /\ ~LastCall.check_mode /\ LastCall.ret
    /\ LastCall.rejected /\ LastCall.spindle_calls = 1
    /\ hal.spindle.on

\* C2: a gateway call made in check mode pushes nothing (neither the line nor
\* a backlash move), makes no spindle call and returns success, and the
\* soft-limit check of a non-jog target has been made.
C2_CheckModeShortCircuit ==
    (Finished /\ LastCall.check_mode) =>
        /\ LastCall.offers = 0
        /\ LastCall.bl_offers = 0
        /\ LastCall.spindle_calls = 0
        /\ LastCall.ret
        /\ LastCall.soft = (~LastCall.req.jog /\ settings.soft_enabled)
        /\ LastCall.violation =
             (LastCall.soft /\ \E i \in Axes : LastCall.req.target[i] > TravelMax)

C2_Witness ==
    /\ Finished /\ LastCall.check_mode /\ LastCall.violation
    /\ sys.state = "CHECK_MODE" /\ rt_alarm = "SoftLimit"
    /\ plan.blocks = <<>>

InWaitCheck == Depth > 0 /\ Top.fn = "mc_line"
               /\ Top.pc \in {"wait_checked", "backlash_checked"}
InWait == Depth > 0 /\ Top.fn = "mc_line" /\ Top.pc \in {"wait", "backlash_wait"}

\* C3: the gateway never pushes (line or backlash move) into a full planner
\* buffer; each pass of its wait loops requests auto-cycle-start and runs a
\* realtime drain, and a drain reporting abort ends the call with false and
\* without a push.
C3_Backpressure ==
    [][/\ (InWait /\ stack' # stack /\ Len(plan.blocks) >= PlanCap) =>
            /\ plan' = plan
            /\ "CYCLE_START" \in rt_state'
            /\ Len(stack') = Len(stack) + 2
            /\ stack'[Len(stack')].fn = "protocol_exec_rt_system"
       /\ (InWait /\ plan' # plan /\ stack' # stack) => Len(plan.blocks) < PlanCap
       /\ (InWaitCheck /\ ~ret /\ stack' # stack) =>
            /\ Len(stack') = Len(stack) - 1
            /\ ~ret'
            /\ plan' = plan
            /\ g'.call.done /\ g'.call.offers = 0]_vars

C3_Witness ==
    /\ Finished /\ LastCall.aborted_wait /\ ~LastCall.ret
    /\ Len(plan.blocks) >= PlanCap

\* C6 (as claimed): a non-jog target outside the travel extents, soft limits
\* enabled, is never pushed to the planner.
C6_NoPushOnSoftLimit ==
    (Finished /\ LastCall.violation) =>
        LastCall.offers = 0 /\ LastCall.bl_offers = 0

\* C4 (as claimed): a gateway wait loop whose drain has just consumed
\* EXEC_RESET is told to fail, and a suspend loop whose drain consumed it
\* ends, whatever the e-stop input reads.
C4_ResetEndsEveryWait ==
    /\ (InWaitCheck /\ "RESET" \in g.snap) => ~ret
    /\ (At("protocol_exec_rt_suspend", "loop") /\ "RESET" \in g.snap) =>
          (~sys.suspend \/ sys.abort)

\* ---------------------------------------------------------------- C9, C10
\* A foreground step is one that spends no interrupt budget.
Foreground == budget'.events = budget.events
AtDrain == At("protocol_exec_rt_system", "drain")
AtCritical == At("protocol_exec_rt_system", "critical")
AtAlarm == At("protocol_exec_rt_system", "alarm")
NextPc == stack'[Len(stack')].pc

\* C9: a drain whose snapshot holds EXEC_RESET acts on no other bit: it reports
\* nothing, stops nothing, leaves the state machine, the planner, the outputs
\* and the queued overrides alone, sets abort from the e-stop input and
\* returns at once.
C9_ResetWins ==
    [][(AtDrain /\ "RESET" \in rt_state /\ Foreground /\ stack' # stack) =>
          /\ sys' = [sys EXCEPT !.abort = ~pins.e_stop]
          /\ plan' = plan
          /\ hal' = hal
          /\ ovr' = ovr
          /\ g'.reports = g.reports
          /\ stack' = Popped(stack)
          /\ ret' = pins.e_stop]_vars

C9_Witness ==
    /\ {"RESET", "STOP"} \subseteq g.snap
    /\ ovr # <<>>
    /\ ~sys.delay_overrides
    /\ ~sys.cancel
    /\ sys.state = "CHECK_MODE"
    /\ AtMain("checkpoint")

\* C10 as the code has it: a critical alarm keeps the foreground in the wait
\* until EXEC_RESET is pending; the drain that follows is a reset drain; an
\* iteration of the wait that finds a status request and no reset answers it;
\* any other alarm sets ALARM and goes on to the drain.
C10_CriticalBlocks ==
    [][/\ (AtCritical /\ stack' # stack) =>
            "RESET" \in rt_state /\ sys' = sys /\ ovr' = ovr /\ plan' = plan
       /\ (AtCritical /\ Foreground /\ "RESET" \notin rt_state) =>
            /\ stack' = stack /\ sys' = sys /\ ovr' = ovr
            /\ "STATUS_REPORT" \in rt_state =>
                 g'.reports = g.reports + 1 /\ "STATUS_REPORT" \notin rt_state'
       /\ (AtDrain /\ Top.v.crit /\ Foreground /\ stack' # stack) =>
            /\ "RESET" \in rt_state
            /\ sys' = [sys EXCEPT !.abort = ~pins.e_stop]
            /\ ovr' = ovr
       /\ (AtAlarm /\ Foreground /\ rt_alarm # NoAlarm) =>
            IF rt_alarm \in {"HardLimit", "SoftLimit", "EStop"}
            THEN NextPc = "critical"
            ELSE NextPc = "drain" /\ sys'.state = "ALARM"]_vars

C10_Witness ==
    /\ AtCritical
    /\ g.wait_reports > 0
    /\ "AbortCycle" \in g.alarms
    /\ "HardLimit" \in g.alarms
    /\ rt_state = {}

\* C10 as stated: no status request posted during the wait goes unanswered.
C10_EveryStatusAnswered ==
    ~(g.crit /\ g.wait_posted /\ "STATUS_REPORT" \in g.snap)

\* ----------------------------------------------------------------- C7, C8
Locked == {"ALARM", "ESTOP"}

C5_CycleBailsOnFailedLine ==
    g.cyc.failed =>
        /\ ~g.cyc.active
        /\ ~OnStack(g.cyc.fn)
        /\ ~OnStack("mc_line")

\* An arc that gave up with segments still to go.
C5_Witness ==
    /\ g.cyc.fn = "mc_arc"
    /\ g.cyc.failed
    /\ g.cyc.issued < g.cyc.planned
    /\ At("caller", "idle")

\* ------------------------------------------------------------------- C11
\* C11 (as claimed): while the e-stop input is asserted no reset takes effect:
\* a step taken with e-stop asserted before and after it never sets abort, the
\* reset character changes neither the pending flags, the pending alarm nor
\* the outputs, and the ESTOP state is left only with e-stop released.
C11_EStopBlocksReset ==
    [][/\ (pins.e_stop /\ pins'.e_stop /\ ~sys.abort) => ~sys'.abort
       /\ (sys.state = "ESTOP" /\ sys'.state # "ESTOP") => ~pins.e_stop]_vars

\* ------------------------------------------------------------------- C12
\* C12 (as claimed): a flag leaves the realtime state register only through a
\* foreground drain that returns it: the drain of line 1132, whose snapshot
\* holds it, or the status-report test of the critical wait, which answers
\* it. The reset that line 1117 discards on purpose when a critical alarm is
\* taken, and re-initialisation after an abort, are left aside.
C12_NoFlagLost ==
    [][\A f \in rt_state \ rt_state' :
          \/ AtDrain /\ f \in g'.snap
          \/ AtAlarm /\ f = "RESET"
          \/ AtCritical /\ f = "STATUS_REPORT" /\ g'.reports = g.reports + 1
          \/ AtMain("checkpoint") /\ sys.abort]_vars

\* ------------------------------------------------------------------- C13
\* C13 (as claimed): when the main loop is about to direct a line, every flag
\* that was pending when the line's end was read has since been acted upon by
\* a drain: none of them is left that a drain never took, or took only to
\* drop it behind EXEC_RESET.
C13_FlagsActedBeforeDispatch ==
    (AtMain("eol") /\ ret) => g.eol = {}

\* ------------------------------------------------------------------- C14
\* C14 (as claimed): whenever protocol_main_loop has returned, abort was set
\* or the exit flag raised; a cancel on its own never made it return.
C14_ReturnsOnlyOnAbortOrExit ==
    g.left.at # "none" => g.left.abort \/ g.left.exit

SecondRun(s, p, h, q, ps) == DrainResult(s, {}, p, h, q, ps)

\* Such a run changes nothing.
Settled(s, p, h, q, ps) ==
    LET r == SecondRun(s, p, h, q, ps)
    IN r.sys = s /\ r.plan = p /\ r.hal = h /\ r.ovr = q

\* C16 as the code has it: after a run of protocol_exec_rt_system that did not
\* return early on EXEC_RESET, a second run with nothing posted in between
\* leaves mode, flags, overrides, modal state, planner and outputs as they
\* are; the registers stay empty.
C16_SecondRunChangesNothing ==
    [][(AtDrain /\ stack' # stack /\ "RESET" \notin rt_state) =>
          /\ Settled(sys', plan', hal', ovr', pins')
          /\ rt_state' = {}]_vars

\* Two runs done, the first having applied a queued override, the second
\* having found nothing.
C16_Witness ==
    /\ budget.drains = 0 /\ AtMain("checkpoint")
    /\ g.snap = {} /\ "RESET" \notin rt_state /\ rt_alarm = NoAlarm
    /\ ovr = <<>> /\ sys.f_override # DEFAULT_FEED_OVERRIDE
    /\ ~sys.abort

\* C16 as stated: after any run, a second run changes nothing.
C16_AlwaysIdempotent ==
    [][(AtDrain /\ stack' # stack) =>
          Settled(sys', plan', hal', ovr', pins')]_vars

\* What the code does with each control code (the cases of C17): all are
\* dropped after setting their flag or queueing their override, except that the
\* safety-door code on a driver that has a door input, and the optional-stop
\* toggle, get no flag and stay in the line while realtime commands are kept
\* ('$' line or comment), and a reset under an asserted e-stop is dropped
\* without a reset. Newline and carriage return are never dropped.
C17_ControlCodesDropped ==
    g.ch.code # "none" =>
      LET e == g.ch.effect
          code == g.ch.code
          cap == hal.driver_cap
      IN /\ code \in {"LF", "CR"} => ~e.drop /\ e = NoEffect
         /\ code \in FlagCodes =>
               e.drop /\ e.flags = {FlagOfCode(code)} /\ e.flags \subseteq rt_state
         /\ code = "CMD_RESET" => e.drop /\ (e.reset <=> ~g.ch.e_stop)
         /\ code = "CMD_EXIT" => e.drop /\ e.reset /\ sys.exit
         /\ code = "CMD_JOG_CANCEL" =>
               /\ e.drop /\ lin.char_counter = 0
               /\ e.flags = IF settings.kinematics_api /\ g.ch.state = "JOG"
                            THEN {"MOTION_CANCEL"} ELSE {}
         /\ code \in FeedCodes => e.drop /\ Len(ovr) > 0 /\ ovr[Len(ovr)] = code
         /\ code \in AccessoryCodes => e.drop /\ e.accessory
         /\ code = "CMD_SAFETY_DOOR" =>
               IF ~cap.safety_door
               THEN e.drop /\ "SAFETY_DOOR" \in rt_state
               ELSE e.flags = {} /\ (g.ch.keep => ~e.drop)
         /\ code = "CMD_OPTIONAL_STOP_TOGGLE" =>
               /\ e.flags = {}
               /\ e.toggled <=> ~cap.program_stop
               /\ g.ch.keep => ~e.drop

\* The optional-stop toggle arrives inside a '$' line and stays in the line.
C17_Witness ==
    /\ g.ch.code = "CMD_OPTIONAL_STOP_TOGGLE"
    /\ g.ch.range = "ext"
    /\ g.ch.keep
    /\ ~g.ch.effect.drop
    /\ g.ch.effect.toggled

\* C17: every control code is dropped from the line, in every input context
\* and whatever the driver capabilities.
C17_EveryCodeDropped ==
    g.ch.code \in ControlCodes => g.ch.effect.drop

\* The pushes of the log that carry the backlash flag, and the target the
\* move before move k was given.
BacklashPushes == {i \in 1..Len(g.bk.log) : g.bk.log[i].cond.backlash_motion}

PrevTarget(k) == IF k = 1 THEN g.bk.start ELSE g.bk.moves[k - 1]

\* C18: each mc_line call pushes at most one backlash-flagged segment,
\* however many axes reverse in it, and every such segment is a rapid.
C18_OneRapidBacklashSegment ==
    \A i \in BacklashPushes :
        /\ g.bk.log[i].cond.rapid_motion
        /\ \A j \in BacklashPushes : g.bk.log[j].move = g.bk.log[i].move => j = i

\* A move reversed both compensated axes and one backlash segment, offset on
\* both, was pushed before the move itself.
C18_Witness ==
    /\ At("caller", "idle")
    /\ g.call.done /\ g.call.ret
    /\ Len(g.bk.log) >= 2
    /\ LET b == g.bk.log[Len(g.bk.log) - 1]
       IN /\ b.cond.backlash_motion
          /\ b.move = Len(g.bk.moves)
          /\ \A a \in Axes : b.target[a] # PrevTarget(b.move)[a]

\* C19: a backlash segment pushed for move n comes after every push of the
\* earlier moves and, when move n is pushed, directly before it.
C19_BacklashJustBeforeItsMove ==
    \A i \in BacklashPushes :
        LET n == g.bk.log[i].move
        IN /\ \A j \in 1..(i - 1) : g.bk.log[j].move < n
           /\ \A k \in (i + 1)..Len(g.bk.log) :
                 g.bk.log[k].move = n =>
                    k = i + 1 /\ ~g.bk.log[k].cond.backlash_motion

\* The second move of a sequence reversed, waited for room between its two
\* pushes, and its backlash segment and the move are the last two pushes.
C19_Witness ==
    /\ At("caller", "idle")
    /\ g.call.done /\ g.call.ret /\ g.call.waited
    /\ Len(g.bk.moves) = 2
    /\ Len(g.bk.log) >= 3
    /\ LET m == Len(g.bk.log)
       IN /\ g.bk.log[m - 1].cond.backlash_motion
          /\ g.bk.log[m - 1].move = 2
          /\ ~g.bk.log[m].cond.backlash_motion
          /\ g.bk.log[m].move = 2
          /\ g.bk.log[m - 2].move = 1

\* The direction reversals of a sequence of moves, told from the targets
\* alone: the axes travelling in the negative direction after move k, and the
\* compensated axes on which move k travels against the direction before it.
RECURSIVE NegativeAfter(_)
NegativeAfter(k) ==
    IF k = 0 THEN Axes \ settings.homing_dir_mask
    ELSE {a \in Axes :
            IF settings.backlash[a] > 0 /\ g.bk.moves[k][a] # PrevTarget(k)[a]
            THEN g.bk.moves[k][a] < PrevTarget(k)[a]
            ELSE a \in NegativeAfter(k - 1)}

Reversed(k) ==
    {a \in Axes :
        /\ settings.backlash[a] > 0
        /\ \/ g.bk.moves[k][a] > PrevTarget(k)[a] /\ a \in NegativeAfter(k - 1)
           \/ g.bk.moves[k][a] < PrevTarget(k)[a] /\ a \notin NegativeAfter(k - 1)}

RECURSIVE Reversals(_)
Reversals(k) ==
    IF k = 0 THEN 0 ELSE Reversals(k - 1) + Cardinality(Reversed(k))

\* Every call since the tracker was initialised ran to its end and returned
\* true, and the caller has control.
CleanSequence == At("caller", "idle") /\ g.bk.clean

\* C20 (amended): over a sequence of non-aborted calls the backlash pushes
\* are as many as the moves that reverse at least one compensated axis; each
\* is displaced from the previous target by settings.backlash on exactly the
\* reversing axes, towards the new direction; a move to the previous target
\* emits none.
C20_OnePushPerReversingMove ==
    CleanSequence =>
      /\ Cardinality(BacklashPushes) =
            Cardinality({k \in 1..Len(g.bk.moves) : Reversed(k) # {}})
      /\ \A i \in BacklashPushes :
            LET n == g.bk.log[i].move
            IN \A a \in Axes :
                  g.bk.log[i].target[a] =
                     IF a \notin Reversed(n) THEN PrevTarget(n)[a]
                     ELSE IF g.bk.moves[n][a] > PrevTarget(n)[a]
                          THEN PrevTarget(n)[a] + settings.backlash[a]
                          ELSE PrevTarget(n)[a] - settings.backlash[a]
      /\ \A k \in 1..Len(g.bk.moves) :
            g.bk.moves[k] = PrevTarget(k) =>
               \A i \in BacklashPushes : g.bk.log[i].move # k

\* Three moves ran to their end; one of them reversed both compensated axes
\* at once, and two backlash segments were pushed in all.
C20_Witness ==
    /\ CleanSequence
    /\ Len(g.bk.moves) = 3
    /\ Len(g.bk.log) = 5
    /\ Cardinality(BacklashPushes) = 2
    /\ \E k \in 1..3 : Cardinality(Reversed(k)) = 2

\* C20: the backlash pushes are as many as the direction reversals on
\* compensated axes over the sequence.
C20_PushesEqualReversals ==
    CleanSequence => Cardinality(BacklashPushes) = Reversals(Len(g.bk.moves))

\* An arc has returned to its caller with no call of mc_line refused, outside
\* check mode.
ArcDone ==
    /\ At("caller", "idle")
    /\ g.cyc.fn = "mc_arc" /\ ~g.cyc.active /\ ~g.cyc.failed
    /\ g.call.done /\ g.call.ret
    /\ ~g.arc.check_mode

\* C21: an arc that is not aborted, with computed segment count n, calls
\* mc_line max(n, 1) times; its last call is for the commanded target, and
\* that call's push is accepted by the planner.
C21_ArcEndsOnTarget ==
    ArcDone =>
      /\ g.cyc.issued = IF g.arc.segments > 1 THEN g.arc.segments ELSE 1
      /\ g.call.req.target = g.arc.target
      /\ g.call.offers = 1
      /\ ~g.call.rejected

\* An arc of three segments to a target away from its start: two
\* intermediate points, then the target, with a wait for room on the way.
C21_Witness ==
    /\ ArcDone
    /\ g.arc.segments = 3
    /\ g.arc.target # g.arc.start
    /\ g.cyc.issued = 3
    /\ g.call.waited

\* C22 (amended): an arc whose target is its start point has an angular
\* travel of a full turn, clockwise or counter-clockwise as commanded; its
\* segment count is at least three and, not aborted, it makes that many calls
\* of mc_line, the last one back to the start point.
C22_ZeroTravelIsFullTurn ==
    (g.cyc.fn = "mc_arc" /\ g.arc.quarters = 0) =>
      /\ g.arc.target = g.arc.start
      /\ g.arc.segments >= 3
      /\ ArcDone =>
            /\ g.cyc.issued = g.arc.segments
            /\ g.call.req.target = g.arc.start

\* A clockwise arc back to its own start point, done in three segments.
C22_Witness ==
    /\ ArcDone
    /\ g.arc.quarters = 0
    /\ g.arc.cw
    /\ g.arc.segments = 3
    /\ g.cyc.issued = 3
    /\ plan.pos = g.arc.start

\* C22: an arc whose start point equals its target has a segment count of
\* zero and makes exactly one push, to the target.
C22_ZeroTravelSinglePush ==
    (ArcDone /\ g.arc.quarters = 0) =>
      /\ g.arc.segments = 0
      /\ g.cyc.issued = 1

\* The steps of a thread pass that cut, and the lines mc_thread has issued.
CutSteps == {"entry", "entry_taper", "main", "exit_taper"}

ThreadLines == {g.thr.log[i] : i \in 1..Len(g.thr.log)}

\* C23 (amended): in mc_thread the lines of the cut, and only they, are
\* issued with spindle.synchronized on, as feed moves with feed-hold-disable
\* forced on; synchronized is switched off before the retract, which is a
\* rapid but still carries the forced feed-hold-disable; the caller's
\* preference is restored only before the reposition line of a pass that is
\* not the last, and holds for the lines up to the next cut. A thread that
\* runs to its end returns after a retract, with feed-hold-disable still on.
C23_SyncBracketsTheCut ==
    /\ \A e \in ThreadLines :
          /\ e.pl.synchronized <=> e.step \in CutSteps
          /\ e.pl.synchronized => e.pl.feed_hold_disable /\ ~e.pl.rapid_motion
          /\ ~e.pl.synchronized => e.pl.rapid_motion
          /\ e.step = "retract" => e.pl.feed_hold_disable
          /\ e.step \in {"initial", "depth", "reposition"} =>
                e.pl.feed_hold_disable = g.thr.pref
    /\ \A i \in 2..Len(g.thr.log) :
          g.thr.log[i].step = "retract" => g.thr.log[i - 1].step \in CutSteps
    /\ (g.cyc.fn = "mc_thread" /\ ~g.cyc.active /\ ~g.cyc.failed
          /\ g.thr.log # <<>>) =>
          /\ g.thr.log[Len(g.thr.log)].step = "retract"
          /\ g.thr.log[Len(g.thr.log)].pl.feed_hold_disable

\* A thread of two passes ran to its end for a caller that allows feed hold:
\* its retracts were issued with feed hold disabled, its reposition was not.
C23_Witness ==
    /\ At("caller", "idle")
    /\ g.cyc.fn = "mc_thread" /\ ~g.cyc.active /\ ~g.cyc.failed
    /\ ~g.thr.pref
    /\ \E e \in ThreadLines : e.step = "reposition" /\ ~e.pl.feed_hold_disable
    /\ \E e \in ThreadLines : e.step = "retract" /\ e.pl.feed_hold_disable
    /\ \E e \in ThreadLines : e.step = "main" /\ e.pl.synchronized

\* C23: feed-hold-disable is forced on for exactly the lines issued with
\* synchronized on; retract and reposition lines carry the caller's
\* preference.
C23_HoldDisableMirrorsSync ==
    \A e \in ThreadLines :
        /\ e.pl.synchronized => e.pl.feed_hold_disable
        /\ ~e.pl.synchronized => e.pl.feed_hold_disable = g.thr.pref

\* ------------------------------------------------------------------- C24
\* C24: mc_homing_cycle entered with the two-switches setting on and a limit
\* input active returns at its first step with Status_Unhandled, a reset
\* posted and the hard-limit alarm pending; limits_go_home is not called,
\* and the hard-limit interrupt enable and the homed axes are as they were.
C24_TwoSwitchesRefuseHoming ==
    [][(/\ At("mc_homing_cycle", "entry")
        /\ settings.two_switches /\ pins.limits
        /\ stack' # stack)
       => /\ stack' = Popped(stack)
          /\ g'.home.returned /\ g'.home.status = "Unhandled"
          /\ "RESET" \in rt_state'
          /\ rt_alarm' = "HardLimit"
          /\ g'.home.went = 0
          /\ hal'.limits_enabled = g.home.before.enabled
          /\ sys'.homed_mask = g.home.before.homed
          /\ sys'.report_homed = sys.report_homed]_vars

\* A homing call was refused for an active limit input on a machine whose
\* axes were homed by an earlier call; they are still homed.
C24_Witness ==
    /\ At("caller", "homed")
    /\ g.home.gated /\ g.home.status = "Unhandled"
    /\ g.home.went = 0
    /\ g.home.before.homed # {}
    /\ sys.homed_mask = g.home.before.homed
    /\ rt_alarm = "HardLimit"

\* ------------------------------------------------------------------- C25
\* C25: every call of mc_homing_cycle that switched the hard-limit interrupt
\* off has it set as settings.limits.flags.hard_enabled says when it
\* returns, and returns Status_LimitsEngaged when a limit input is asserted
\* at that moment and Status_OK otherwise.
C25_HardLimitsRestored ==
    (g.home.returned /\ g.home.disabled) =>
        /\ g.home.at_return.enabled = settings.hard_enabled
        /\ g.home.status =
              IF g.home.at_return.limits THEN "LimitsEngaged" ELSE "OK"

\* A reset seen by the drain after the homing moves: the call returned
\* Status_Unhandled and left the hard-limit interrupt off on a machine
\* configured with hard limits.
C25_Witness ==
    /\ g.home.returned /\ g.home.disabled /\ g.home.reset_seen
    /\ g.home.status = "Unhandled"
    /\ settings.hard_enabled
    /\ ~g.home.at_return.enabled
    /\ ~hal.limits_enabled

\* ------------------------------------------------------------------- C26
\* C26: a call of mc_probe_cycle whose probing wait ended without abort
\* returns Found with probe_succeeded set when the monitor fired, and FailEnd
\* when it did not; without contact it posts ProbeFailContact, or with
\* no_error it posts no alarm and takes the machine position as the probe
\* position. Either way it resets the stepper buffer, resets the planner and
\* takes the planner position from the machine position, in that order:
\* it returns over an empty planner standing at the machine position.
C26_ProbeOutcome ==
    (g.probe.returned /\ g.probe.waited) =>
        /\ g.probe.status = IF g.probe.hit THEN "Found" ELSE "FailEnd"
        /\ g.probe.hit => g.probe.posted = {} /\ ~g.probe.snapshot
        /\ (~g.probe.hit /\ ~g.probe.no_error) =>
              g.probe.posted = {"ProbeFailContact"} /\ ~g.probe.snapshot
        /\ (~g.probe.hit /\ g.probe.no_error) =>
              g.probe.posted = {} /\ g.probe.snapshot
        /\ g.probe.flush = <<"st_reset", "plan_reset", "plan_sync_position">>
        /\ g.probe.at_return.blocks = 0
        /\ g.probe.at_return.pos = g.probe.at_return.position
        /\ (At("caller", "idle") /\ stack = <<Top>>) =>
              /\ sys.probe_succeeded = g.probe.hit
              /\ sys.probe_state = "Off"
              /\ g.probe.snapshot => sys.probe_position = sys.position

\* A probe stopped by contact away from the origin, with the rest of its
\* block still queued when the cycle flushed the buffers.
C26_Witness ==
    /\ At("caller", "idle")
    /\ g.probe.returned /\ g.probe.waited /\ g.probe.hit
    /\ g.probe.status = "Found"
    /\ sys.position # Origin
    /\ plan.blocks = <<>>
    /\ plan.pos = sys.position

\* ------------------------------------------------------------------- C27
\* C27: mc_probe_cycle entered in CHECK_MODE returns CheckMode and changes
\* nothing; a call that finds the probe input triggered after draining the
\* planner posts ProbeFailInitial and queues nothing, and a call that
\* returns FailInit has posted that alarm only, armed no monitor, asked for
\* no cycle start and submitted no line.
C27_ProbeRefused ==
    /\ [][(At("mc_probe_cycle", "entry") /\ sys.state = "CHECK_MODE"
              /\ stack' # stack)
          => /\ stack' = Popped(stack)
             /\ g'.probe.status = "CheckMode"
             /\ UNCHANGED <<ret, sys, rt_state, rt_alarm, pins, plan, hal, ovr,
                            bl>>]_vars
    /\ [][(At("mc_probe_cycle", "synced") /\ ~sys.abort
              /\ pins.probe # Top.v.away /\ stack' # stack)
          => /\ rt_alarm' = "ProbeFailInitial"
             /\ UNCHANGED <<plan, rt_state>>
             /\ sys'.probe_state = sys.probe_state
             /\ stack'[Depth].pc = "fail_init"]_vars
    /\ [](g.probe.status = "FailInit" =>
             /\ g.probe.posted = {"ProbeFailInitial"}
             /\ ~g.probe.armed /\ ~g.probe.started
             /\ g.bk.moves = <<>> /\ g.bk.log = <<>>)

\* A probe away from the workpiece refused because the input, read through
\* the inverted mask, was triggered once the queued block had been run.
C27_Witness ==
    /\ At("caller", "idle")
    /\ g.probe.status = "FailInit"
    /\ ~pins.probe
    /\ sys.position # Origin
    /\ sys.state = "ALARM"
    /\ ~hal.probe_invert

\* ------------------------------------------------------------------- C28
\* C28: the last step of mc_jog_execute sets the mode to JOG and starts the
\* stepper when the mode is IDLE or TOOL_CHANGE and the planner holds a
\* block, and changes neither otherwise; nothing else sets the mode to JOG.
\* A jog whose target lies outside the travel, with soft limits enabled and
\* jog limiting off, returns Status_TravelExceeded at once: the planner, the
\* mode, the stepper and the pending flags and alarm are as they were.
C28_JogStartsFromIdle ==
    /\ [][(At("mc_jog_execute", "after_line") /\ stack' # stack) =>
            /\ g'.jog.status = "OK"
            /\ IF sys.state \in {"IDLE", "TOOL_CHANGE"} /\ Len(plan.blocks) > 0
               THEN sys'.state = "JOG" /\ hal'.running
               ELSE UNCHANGED <<sys, hal>>]_vars
    /\ [][(sys'.state = "JOG" /\ sys.state # "JOG") =>
            At("mc_jog_execute", "after_line")]_vars
    /\ [][(/\ At("mc_jog_execute", "entry")
           /\ settings.soft_enabled /\ ~settings.jog_soft_limited
           /\ ~InTravel(Top.v.target)
           /\ stack' # stack) =>
            /\ stack' = Popped(stack)
            /\ g'.jog.status = "TravelExceeded"
            /\ g'.bk.log = <<>>
            /\ UNCHANGED <<sys, plan, hal, rt_state, rt_alarm>>]_vars

\* A jog submitted while a queued block was running: the mode stayed CYCLE
\* although the planner held the jog block.
C28_Witness ==
    /\ At("caller", "idle")
    /\ g.jog.returned /\ g.jog.status = "OK" /\ ~g.jog.started
    /\ sys.state = "CYCLE"
    /\ Len(plan.blocks) > 0
    /\ plan.blocks[Len(plan.blocks)].target = g.call.req.target
    /\ g.call.req.jog

\* ------------------------------------------------------------------- C29
\* Lines 806-830: the conditions that keep the machine locked at entry, as
\* the claim lists them.
GateHolds ==
    \/ pins.e_stop
    \/ settings.homing_init_lock /\ ~sys.homed
    \/ settings.hard_enabled /\ settings.check_at_init /\ pins.limits
    \/ Top.v.cold /\ settings.force_initialization_alarm
    \/ sys.state \in {"ALARM", "SLEEP"}

\* C29 (amended): at the entry of protocol_main_loop, when a gate condition
\* holds the mode becomes ESTOP if it is the e-stop input that is asserted
\* and ALARM otherwise, and the startup script is not run; the startup script
\* is run only by an entry at which no gate condition held and which set the
\* mode to IDLE.
C29_GatesLockTheEntry ==
    /\ [][(AtMain("enter") /\ stack' # stack /\ GateHolds) =>
            /\ sys'.state = IF pins.e_stop THEN "ESTOP" ELSE "ALARM"
            /\ ~g'.startup.run
            /\ AtMain("read")']_vars
    /\ [][(g'.startup.run /\ ~g.startup.run) =>
            \/ AtMain("enter") /\ ~GateHolds /\ sys'.state = "IDLE"
            \/ AtMain("after_door")]_vars
    /\ [][(AtMain("enter") /\ AtMain("door_read")') =>
            ~GateHolds /\ sys'.state = "IDLE"]_vars

\* An entry with the e-stop input asserted: the mode is ESTOP, the startup
\* script was not run, and the loop is about to read its first input.
C29_Witness ==
    /\ AtMain("read")
    /\ pins.e_stop
    /\ sys.state = "ESTOP"
    /\ ~g.startup.run
    /\ lin = LinInit
    /\ budget.events = MaxGateEvents

\* C29: when any gate condition holds at the entry of protocol_main_loop the
\* mode is elevated to ALARM and the startup script is not run.
C29_GatesElevateToAlarm ==
    [][(AtMain("enter") /\ stack' # stack /\ GateHolds) =>
          sys'.state = "ALARM" /\ ~g'.startup.run]_vars

\* ------------------------------------------------------------------- C30
\* Whether the plunge logged at i is the first of its hole: no plunge comes
\* before it, or the plunge before it reached the bottom.
FirstOfHole(i) ==
    \/ \A j \in 1..(i - 1) : g.drl.log[j].step # "plunge"
    \/ /\ i > 2
       /\ g.drl.log[i - 2].step = "plunge"
       /\ g.drl.log[i - 2].z = g.drl.d.bottom
       /\ g.drl.log[i - 1].step = "retract"
    \/ /\ i > 1
       /\ g.drl.log[i - 1].step = "next"

\* The depth the plunge logged at i starts from: the R-plane, or the depth
\* of the plunge before it.
PlungeFrom(i) ==
    IF FirstOfHole(i) THEN g.drl.d.retract ELSE g.drl.log[i - 2].z

\* C30: in mc_canned_drill every plunge is a feed move that goes delta below
\* the plunge before it, the first of a hole delta below the R-plane, and
\* never below the final depth; a cycle that ran to its end made its last
\* plunge to the final depth. Unless its line was refused, every plunge is
\* followed by exactly one retract: to the R-plane, or for a chip-break
\* cycle to g73_retract above the plunge while that is short of the final
\* depth.
C30_PecksAndRetracts ==
    LET log == g.drl.log
        d == g.drl.d
        plunges == {i \in 1..Len(log) : log[i].step = "plunge"}
    IN /\ \A i \in plunges :
             /\ ~log[i].rapid
             /\ log[i].z >= d.bottom
             /\ log[i].z = IF PlungeFrom(i) - d.delta < d.bottom THEN d.bottom
                           ELSE PlungeFrom(i) - d.delta
             /\ ~FirstOfHole(i) => log[i - 2].step = "plunge"
             /\ i < Len(log) =>
                   /\ log[i + 1].step = "retract"
                   /\ log[i + 1].z =
                         IF d.chipbreak /\ log[i].z # d.bottom
                         THEN log[i].z + d.g73_retract ELSE d.retract
             /\ i = Len(log) => g.cyc.active \/ g.cyc.failed
       /\ \A j \in 1..Len(log) :
             log[j].step = "retract" => j > 1 /\ log[j - 1].step = "plunge"
       /\ (g.cyc.fn = "mc_canned_drill" /\ ~g.cyc.active /\ ~g.cyc.failed
             /\ plunges # {}) =>
             \E i \in plunges :
                /\ \A j \in plunges : j <= i
                /\ log[i].z = d.bottom

\* A chip-break cycle that ran to its end with a last peck shorter than
\* delta: a short retract after the first peck, the R-plane after the last.
C30_Witness ==
    /\ At("caller", "idle")
    /\ g.cyc.fn = "mc_canned_drill" /\ ~g.cyc.active /\ ~g.cyc.failed
    /\ g.drl.d.chipbreak
    /\ \E i \in 1..(Len(g.drl.log) - 3) :
          /\ g.drl.log[i].step = "plunge"
          /\ g.drl.log[i].z = g.drl.d.retract - g.drl.d.delta
          /\ g.drl.log[i + 1].step = "retract"
          /\ g.drl.log[i + 1].z = g.drl.log[i].z + g.drl.d.g73_retract
          /\ g.drl.log[i + 2].step = "plunge"
          /\ g.drl.log[i + 2].z = g.drl.d.bottom
          /\ g.drl.log[i + 2].z > g.drl.log[i].z - g.drl.d.delta
          /\ g.drl.log[i + 3].step = "retract"
          /\ g.drl.log[i + 3].z = g.drl.d.retract

\* ------------------------------------------------------------------- C31
\* A drill cycle that returned from its last line with no call of mc_line
\* refused.
DrillDone ==
    /\ g.cyc.fn = "mc_canned_drill"
    /\ ~g.cyc.active
    /\ ~g.cyc.failed
    /\ g.drl.out.returned

\* The last line of the cycle's own work: the one before the final retract
\* if there is one.
DrillBody ==
    LET n == Len(g.drl.log)
    IN IF g.drl.log[n].step = "final" THEN n - 1 ELSE n

\* C31 (amended): a drill cycle in retract mode "previous" that was not
\* aborted ends with a rapid move of the linear axis up to the previous
\* position, and hands that position back, exactly when it is not a
\* chip-break cycle and its last line left the tool below the previous
\* position; a chip-break cycle, and a cycle whose previous position is not
\* above the R-plane, issues no such move and hands back the position of
\* its last line, the R-plane after a peck.
C31_FinalRetractToPrevious ==
    LET log == g.drl.log
        d == g.drl.d
        n == Len(log)
        hasFinal == log[n].step = "final"
    IN (DrillDone /\ d.retract_mode = "Previous") =>
          /\ \A i \in 1..(n - 1) : log[i].step # "final"
          /\ hasFinal <=> (~d.chipbreak /\ log[DrillBody].z < d.prev)
          /\ hasFinal =>
                /\ log[n].rapid
                /\ log[n].z = d.prev
                /\ g.drl.out.z = d.prev
          /\ ~hasFinal => g.drl.out.z = log[n].z
          /\ (\E i \in 1..n : log[i].step = "plunge") =>
                /\ log[DrillBody].step = "retract"
                /\ log[DrillBody].z = d.retract

\* A plain cycle that ran to its end from a previous position above the
\* R-plane: its last line is the rapid retract to that position.
C31_Witness ==
    /\ At("caller", "idle")
    /\ DrillDone
    /\ g.drl.d.retract_mode = "Previous"
    /\ ~g.drl.d.chipbreak
    /\ g.drl.d.prev > g.drl.d.retract
    /\ g.drl.log[Len(g.drl.log)] =
          [z |-> g.drl.d.prev, step |-> "final", rapid |-> TRUE]
    /\ g.drl.out.z = g.drl.d.prev

\* C31 (as claimed): every drill cycle in retract mode "previous" that was
\* not aborted, chip-break included, ends with a rapid move up to the
\* previous position and hands that position back.
C31_AlwaysEndsAtPrevious ==
    (DrillDone /\ g.drl.d.retract_mode = "Previous") =>
        /\ g.drl.log[Len(g.drl.log)].rapid
        /\ g.drl.log[Len(g.drl.log)].z = g.drl.d.prev
        /\ g.drl.out.z = g.drl.d.prev

\* ------------------------------------------------------------------- C32
\* The lines of the drill cycle that position the tool: the three before the
\* first hole and the move between holes.
PositioningSteps == {"up_to_r", "xy", "down_to_r", "next"}

\* C32 (as claimed): in mc_canned_drill the three pre-positioning moves and,
\* in incremental mode with repeats left, the move between holes are issued
\* as rapid moves, whatever the cycle's rapid_retract flag.
C32_PositioningAlwaysRapid ==
    \A i \in 1..Len(g.drl.log) :
        g.drl.log[i].step \in PositioningSteps => g.drl.log[i].rapid

\* A cycle with rapid_retract off that moved on to its second hole: the
\* pre-positioning moves were rapid, the move between the holes was issued
\* as a feed move, at the previous position of the linear axis.
C32_Witness ==
    /\ ~g.drl.d.rapid_retract
    /\ g.drl.d.incremental
    /\ \E i \in 1..Len(g.drl.log) :
          /\ g.drl.log[i] = [z |-> g.drl.d.prev, step |-> "next",
                             rapid |-> FALSE]
          /\ i > 1 /\ g.drl.log[i - 1].step = "retract"
          /\ \A j \in 1..(i - 1) :
                g.drl.log[j].step \in PositioningSteps => g.drl.log[j].rapid
          /\ \E j \in 1..(i - 1) : g.drl.log[j].step = "xy"

\* ------------------------------------------------------------------- C33
\* A thread cycle that ran to its end with no call of mc_line refused.
ThreadDone == g.cyc.fn = "mc_thread" /\ ~g.cyc.active /\ ~g.cyc.failed

\* The least pass number whose depth of cut reaches the full depth.
RECURSIVE FirstFullPass(_, _)
FirstFullPass(t, pass) ==
    IF calc_thread_doc(pass, t.initial_depth, t.depth_degression) >= t.depth
    THEN pass
    ELSE FirstFullPass(t, pass + 1)

\* Every pass ends with one retract, issued while the pass's depth of cut is
\* still in force: the retracts stand for the passes.
PassEnds == {i \in 1..Len(g.thr.log) : g.thr.log[i].step = "retract"}

\* The passes from the one ending at i to the last.
PassesFrom(i) == {j \in PassEnds : j >= i}

\* C33 (as claimed): a thread cycle that was not aborted makes n +
\* spring_passes passes, n the least pass whose depth of cut reaches the
\* full depth; the depth of cut never shrinks from one pass to the next and
\* never exceeds the full depth, whatever the initial depth; the last
\* spring_passes + 1 passes are cut at the full depth.
C33_PassesGrowToFullDepth ==
    ThreadDone =>
        /\ Cardinality(PassEnds) =
              FirstFullPass(g.thr.t, 1) + g.thr.t.spring_passes
        /\ \A i, j \in PassEnds :
              i < j => g.thr.log[i].doc <= g.thr.log[j].doc
        /\ \A i \in PassEnds : g.thr.log[i].doc <= g.thr.t.depth
        /\ \A i \in PassEnds :
              Cardinality(PassesFrom(i)) <= g.thr.t.spring_passes + 1 =>
                 g.thr.log[i].doc = g.thr.t.depth

\* A thread with an initial depth above its full depth ran to its end: its
\* first pass was cut deeper than the full depth, the spring pass after it
\* at the full depth.
C33_Witness ==
    /\ At("caller", "idle")
    /\ ThreadDone
    /\ g.thr.t.initial_depth > g.thr.t.depth
    /\ Cardinality(PassEnds) = 1 + g.thr.t.spring_passes
    /\ \E i, j \in PassEnds :
          /\ i < j
          /\ g.thr.log[i].doc = g.thr.t.initial_depth
          /\ g.thr.log[j].doc = g.thr.t.depth
    /\ g.thr.log[1].step = "depth"
    /\ g.thr.log[1].x = g.thr.t.x +
          (g.thr.t.peak + g.thr.t.initial_depth) * g.thr.t.cut_direction

\* ------------------------------------------------------------------- C34
\* Whether the line logged at i is the first of a pass: the first line of
\* the cycle after the initial compound-slide move, or the line after a
\* reposition.
PassStart(i) ==
    /\ g.thr.log[i].step # "initial"
    /\ i = 1 \/ g.thr.log[i - 1].step \in {"initial", "reposition"}

\* X at the depth of cut in force when the line logged at i was issued.
CutX(i) ==
    g.thr.t.x + (g.thr.t.peak + g.thr.log[i].doc) * g.thr.t.cut_direction

\* C34 (as claimed): for every end-taper mode each pass of mc_thread begins
\* with a rapid, non-synchronized X move to start X + (peak + DOC) *
\* cut_direction, so that the main cut starts at the pass's depth of cut;
\* it ends with a rapid retract to the start X which, except after the last
\* pass, is followed by the traverse back to the start Z offset by the
\* remaining compound infeed.
C34_PassStartsAtDepth ==
    LET log == g.thr.log
        t == g.thr.t
    IN \A i \in 1..Len(log) :
          /\ PassStart(i) =>
                /\ log[i].step = "depth"
                /\ log[i].pl.rapid_motion /\ ~log[i].pl.synchronized
                /\ log[i].x = CutX(i)
          /\ log[i].step = "main" => i > 1 /\ log[i - 1].x = CutX(i)
          /\ log[i].step = "retract" =>
                /\ log[i].pl.rapid_motion /\ ~log[i].pl.synchronized
                /\ log[i].x = t.x
                /\ i < Len(log) =>
                      /\ log[i + 1].step = "reposition"
                      /\ log[i + 1].z =
                            t.z + (t.depth - log[i + 1].doc) * t.infeed_factor
                /\ i = Len(log) =>
                      g.cyc.active \/ g.cyc.failed
                         \/ Cardinality(PassEnds) =
                               FirstFullPass(t, 1) + t.spring_passes

\* A thread with an exit taper only: the first line of its first pass is the
\* synchronized main cut, issued from the start X, where no depth of cut has
\* been set.
C34_Witness ==
    /\ g.thr.t.end_taper_type = "Exit"
    /\ g.cyc.fn = "mc_thread"
    /\ Len(g.thr.log) >= 2
    /\ g.thr.log[1].step = "main"
    /\ g.thr.log[1].pl.synchronized
    /\ g.thr.log[1].x = g.thr.t.x
    /\ g.thr.log[1].x # CutX(1)
    /\ g.thr.log[2].step = "exit_taper"

\* ------------------------------------------------------------------- C40
\* C40 (as claimed): the loops of the cycles end, because every turn brings
\* them nearer their end: in mc_canned_drill each plunge of a hole goes
\* deeper than the plunge before it, whatever the peck depth delta, and in
\* mc_thread the depth of cut the counting loop compares with the full
\* depth grows with every pass counted, whatever the initial depth.
C40_LoopsAdvance ==
    /\ \A i \in 1..Len(g.drl.log) :
          (g.drl.log[i].step = "plunge" /\ ~FirstOfHole(i)) =>
              g.drl.log[i].z < g.drl.log[i - 2].z
    /\ (At("mc_thread", "count") /\ Top.v.passes >= 1) =>
          Top.v.doc * powf(Top.v.passes + 1, Top.v.t.depth_degression)
             > Top.v.doc * powf(Top.v.passes, Top.v.t.depth_degression)

\* A drill cycle with a peck depth of zero, not aborted, back at the head of
\* its peck loop after MaxPecks plunges: every plunge went to the R-plane,
\* the depth the loop compares with the final depth is where it started,
\* and the loop goes on.
C40_Witness ==
    /\ At("mc_canned_drill", "peck")
    /\ ~Aborted(sys)
    /\ g.cyc.active /\ ~g.cyc.failed
    /\ Top.v.d.delta = 0
    /\ Top.v.pecks = MaxPecks
    /\ Top.v.current_z = Top.v.d.retract
    /\ Top.v.current_z > Top.v.d.bottom
    /\ \A i \in 1..Len(g.drl.log) :
          g.drl.log[i].step = "plunge" => g.drl.log[i].z = Top.v.d.retract

\* ------------------------------------------------------------------- C35
\* C35 (as claimed): while a feed hold is pending, a run of
\* protocol_exec_rt_system whose snapshot holds CYCLE_START clears the
\* pending hold and, unless the snapshot holds a feed-hold request of its
\* own, hands none to the state machine; otherwise, with feed hold no longer
\* disabled, the run hands EXEC_FEED_HOLD to the state machine; and with
\* feed hold disabled the pending hold stays, unless the snapshot holds
\* EXEC_STOP.
C35_PendingHoldServed ==
    [][(AtDrain /\ stack' # stack /\ sys.feed_hold_pending) =>
          /\ ("CYCLE_START" \in rt_state /\ "FEED_HOLD" \notin rt_state) =>
                /\ ~sys'.feed_hold_pending
                /\ "FEED_HOLD" \notin g'.acted.handed
          /\ ("CYCLE_START" \notin rt_state /\ "STOP" \notin rt_state
                /\ ~sys.feed_hold_disable) =>
                "FEED_HOLD" \in g'.acted.handed
          /\ ("CYCLE_START" \notin rt_state /\ "STOP" \notin rt_state
                /\ sys.feed_hold_disable) =>
                sys'.feed_hold_pending]_vars

\* A call of mc_line made in a cycle with a hold pending and feed hold
\* enabled again, with no flag posted: its checkpoint handed nothing to the
\* state machine, the line went to the planner, the cycle goes on and the
\* hold is still pending.
C35_Witness ==
    /\ At("caller", "idle")
    /\ g.call.done /\ g.call.ret /\ g.call.offers = 1
    /\ g.snap = {}
    /\ g.from.state = "CYCLE"
    /\ g.from.feed_hold_pending /\ ~g.from.feed_hold_disable
    /\ g.acted.handed = {} /\ ~g.acted.updated
    /\ sys.state = "CYCLE" /\ sys.feed_hold_pending /\ ~sys.feed_hold_disable
    /\ ~sys.abort


\* The line buffer half: the write index stays inside the buffer, a line with
\* more bytes to keep than the buffer holds is flagged, and a flagged line is
\* answered with Status_Overflow without being parsed.
LineBufferBounded ==
    /\ lin.char_counter <= LINE_BUFFER_SIZE - 1
    /\ (AtMain("read") /\ g.rd.offered >= LINE_BUFFER_SIZE => lin.overflow)
    /\ (g.last.overflow => g.last.status = "Overflow" /\ ~g.last.parsed)

\* The message buffer half: no byte of a message was written at or beyond
\* LINE_BUFFER_SIZE, and the index stays below it.
MessageBufferBounded ==
    /\ lin.user_message.idx < LINE_BUFFER_SIZE
    /\ g.rd.msg_top < LINE_BUFFER_SIZE

\* C36: for every input byte sequence the write index into the user-message
\* buffer stays below LINE_BUFFER_SIZE, so a (MSG,...) comment of any length
\* never writes past the allocated buffer, and the line write index never
\* exceeds LINE_BUFFER_SIZE - 1, a line that would exceed it being answered
\* with Status_Overflow and not executed.
C36_BuffersNeverOverrun == MessageBufferBounded /\ LineBufferBounded

\* A message comment longer than the buffer was read where uint_fast8_t does
\* not wrap at 256: a byte was stored beyond the end of the buffer.
C36_Witness ==
    /\ hal.fast8_range > LINE_BUFFER_SIZE
    /\ lin.user_message.message
    /\ g.rd.msg_top >= LINE_BUFFER_SIZE

\* Everything that is not a system or user command is g-code (line 909).
GcodeLine(l) ==
    /\ l.src = "stream"
    /\ ~l.overflow
    /\ l.kind = "gcode" \/ (l.kind = "user" /\ ~settings.user_command_execute)

\* While the latch is set no line is handed to the parser.
LatchedLinesSkipped ==
    [][(AtMain("eol") /\ lin.gcode_error) => ~g'.last.parsed]_vars

\* The latch is released by a system line, a user line or CAN only.
LatchReleasedByCommand ==
    [][(lin.gcode_error /\ ~lin'.gcode_error) =>
          \/ AtMain("read")
          \/ /\ AtMain("eol")
             /\ g'.last.kind \in {"system", "user"}
             /\ ~g'.last.overflow]_vars

\* C37: a non-empty g-code line is answered with Status_OK only if it was
\* passed to the parser and the parser returned Status_OK; the lines skipped
\* while the error latch is set are never acknowledged as OK, also when an
\* empty line was received in between.
C37_OkOnlyIfParsed ==
    (GcodeLine(g.last) /\ g.last.status = "OK") => g.last.parsed

\* A g-code line was skipped under the latch and answered OK.
C37_Witness ==
    /\ AtMain("read")
    /\ lin.gcode_error
    /\ GcodeLine(g.last)
    /\ ~g.last.parsed
    /\ g.last.status = "OK"

\* The step on which mc_probe_cycle returns.
ProbeReturning == ~g.probe.returned /\ g'.probe.returned

\* The returns that follow a completed probing wait disarm the monitor and
\* clear the mask.
ProbeCompletedDisarms ==
    [][(ProbeReturning /\ g'.probe.status \in {"Found", "FailEnd"}) =>
          (sys'.probe_state = "Off" /\ ~hal'.probe_invert)]_vars

\* C38: whenever mc_probe_cycle returns, on every return path including an
\* abort during the probing wait, the probe state monitor is disarmed
\* (sys_probe_state is Probe_Off) and the probe invert mask has been
\* re-initialised to false.
C38_EveryReturnDisarms ==
    [][ProbeReturning =>
          (sys'.probe_state = "Off" /\ ~hal'.probe_invert)]_vars

\* The probing wait was left on an abort and the monitor is still armed.
C38_Witness ==
    /\ g.probe.returned
    /\ g.probe.status = "Abort"
    /\ g.probe.armed
    /\ sys.probe_state = "Active"

\* mc_line has just returned false to mc_jog_execute with abort set.
JogLineAborted ==
    /\ At("mc_jog_execute", "after_line")
    /\ g.call.done
    /\ ~g.call.ret
    /\ sys.abort

\* C39: if abort is set when mc_jog_execute's call of mc_line returns (mc_line
\* returned false), mc_jog_execute does not change the state to JOG and does
\* not prepare or wake the stepper, whatever blocks the planner still holds.
C39_AbortedJogStartsNothing ==
    [][JogLineAborted =>
          /\ sys'.state = sys.state
          /\ hal'.running = hal.running
          /\ ~g'.jog.started]_vars

\* A jog given up on abort over a planner that held a block: the mode is JOG
\* and the stepper runs.
C39_Witness ==
    /\ g.jog.returned
    /\ g.jog.started
    /\ ~g.call.ret
    /\ g.call.offers = 0
    /\ sys.abort
    /\ sys.state = "JOG"
    /\ hal.running

====
